---- MODULE Spec2Model ----
(***************************************************************************)
(* Corvus Orca ESS battery management system.                              *)
(*                                                                         *)
(* Two programs are modelled:                                              *)
(*   - the fixed-point firmware (src/firmware): monitor, protection,       *)
(*     contactor FSM, pack mode FSM and the task wrappers;                 *)
(*   - the floating-point reference controller (src/c/corvus_bms.c).       *)
(*                                                                         *)
(* Units follow the firmware: mV, mA, 0.1 degC, ms.  The reference         *)
(* controller's doubles are carried in the same integer units (4.225 V is  *)
(* 4225, 5.0 s is 5000).                                                   *)
(***************************************************************************)
EXTENDS Integers, Sequences, FiniteSets, TLC

(***************************************************************************)
(* Program constants: src/firmware/inc/bms_config.h                        *)
(***************************************************************************)
BMS_SE_OV_FAULT_MV == 4225
BMS_SE_UV_FAULT_MV == 3000
BMS_SE_OT_FAULT_DECI_C == 650
BMS_SE_OV_WARN_MV == 4210
BMS_SE_UV_WARN_MV == 3200
BMS_SE_OT_WARN_DECI_C == 600
BMS_SE_OV_WARN_CLEAR_MV == 4190
BMS_SE_UV_WARN_CLEAR_MV == 3220
BMS_SE_OT_WARN_CLEAR_DC == 570
BMS_HW_OV_MV == 4300
BMS_HW_UV_MV == 2700
BMS_HW_OT_DECI_C == 700
BMS_SE_FAULT_DELAY_MS == 5000
BMS_HW_OV_DELAY_MS == 1000
BMS_HW_UV_DELAY_MS == 1000
BMS_HW_OT_DELAY_MS == 5000
BMS_IMBALANCE_WARN_MV == 50
BMS_PRECHARGE_TIMEOUT_MS == 5000
BMS_CONTACTOR_CLOSE_MS == 100
BMS_WELD_DETECT_MS == 200
BMS_PRECHARGE_VOLT_PCT == 95
BMS_EMS_WATCHDOG_MS == 5000
BMS_MONITOR_PERIOD_MS == 10
BMS_FAULT_RESET_HOLD_MS == 60000
BMS_MAX_CHARGE_MA == 384000
BMS_MAX_DISCHARGE_MA == 640000
BMS_NOMINAL_CAPACITY_MAH == 128000
(* src/firmware/src/bms_protection.c *)
BMS_WARN_DELAY_MS == 5000
BMS_WARN_HOLD_MS == 10000
BMS_OC_WARN_MARGIN_PPT == 1050
BMS_OC_WARN_OFFSET_MA == 5000
(* src/firmware/src/bms_soc.c *)
SOC_LOW_CURRENT_MA == 2000
SOC_OCV_RESET_MS == 30000
(* uint32_t values are two 16-bit limbs wide *)
U16 == 65536

(***************************************************************************)
(* Integer helpers with C semantics                                        *)
(***************************************************************************)
Min(a, b) == IF a < b THEN a ELSE b
Max(a, b) == IF a > b THEN a ELSE b
Abs(a) == IF a < 0 THEN -a ELSE a
\* C division truncates toward zero
CDiv(a, b) == IF (a >= 0) = (b > 0) THEN Abs(a) \div Abs(b) ELSE -(Abs(a) \div Abs(b))
\* A uint32_t result that may exceed the plain integers is kept in limbs [hi, lo]
FitsU32(n) == n \div U16 < U16
\* uint32_t addition, wrapping
AddU32(a, b) == IF FitsU32(a + b) THEN a + b ELSE (a + b) - U16 * U16
\* uint32_t subtraction a - b, wrapping, as limbs
SubU32(a, b) ==
    IF a >= b THEN [hi |-> (a - b) \div U16, lo |-> (a - b) % U16]
    ELSE LET d == b - a - 1
         IN  [hi |-> (U16 - 1) - (d \div U16), lo |-> (U16 - 1) - (d % U16)]
\* limbs x > n
GtU32(x, n) == x.hi > n \div U16 \/ (x.hi = n \div U16 /\ x.lo > n % U16)

(***************************************************************************)
(* Leaky integrator helpers: bms_protection.c                              *)
(***************************************************************************)
leak_increment(timer, dt_ms) ==
    IF FitsU32(timer + dt_ms) THEN timer + dt_ms ELSE (U16 - 1) * U16 + (U16 - 1)

\* Variant: decay at the full rate dt
leak_decay_full_rate(timer, dt_ms) ==
    IF timer > dt_ms THEN timer - dt_ms ELSE 0

leak_decay(timer, dt_ms) ==
    LET decay == dt_ms \div 2
    IN  IF timer > decay THEN timer - decay ELSE 0

(***************************************************************************)
(* Current limits: bms_current_limit.c                                     *)
(***************************************************************************)
RECURSIVE interp_seg(_, _, _, _)
interp_seg(x_bp, y_bp, i, x) ==
    IF i > Len(x_bp) THEN y_bp[Len(y_bp)]
    ELSE IF x <= x_bp[i]
         THEN LET dx == x_bp[i] - x_bp[i - 1]
                  dy == y_bp[i] - y_bp[i - 1]
                  frac == x - x_bp[i - 1]
              IN  IF dx = 0 THEN y_bp[i] ELSE y_bp[i - 1] + CDiv(dy * frac, dx)
         ELSE interp_seg(x_bp, y_bp, i + 1, x)

interp_i32(x_bp, y_bp, x) ==
    IF x <= x_bp[1] THEN y_bp[1]
    ELSE IF x >= x_bp[Len(x_bp)] THEN y_bp[Len(y_bp)]
    ELSE interp_seg(x_bp, y_bp, 2, x)

centi_c_to_ma(centi_c) == CDiv(centi_c * BMS_NOMINAL_CAPACITY_MAH, 100)

temp_chg_bp == <<-250, 0, 50, 150, 350, 450, 550, 650>>
temp_chg_cr == <<0, 0, 0, 300, 300, 200, 0, 0>>
temp_dchg_bp == <<-250, -150, -100, -50, 0, 50, 100, 250, 300, 350, 450, 550, 600, 650, 700>>
temp_dchg_cr == <<20, 20, 100, 150, 200, 450, 500, 500, 450, 400, 380, 380, 20, 20, 0>>
soc_chg_bp == <<0, 8500, 9000, 9500, 10000>>
soc_chg_cr == <<300, 300, 200, 100, 50>>
soc_dchg_bp == <<0, 200, 500, 800, 1000, 1500, 2000, 5000, 10000>>
soc_dchg_cr == <<100, 100, 220, 220, 400, 400, 500, 500, 500>>
sev_chg_bp == <<3000, 4100, 4200>>
sev_chg_cr == <<300, 300, 0>>
sev_dchg_bp == <<3000, 3200, 3300, 3400, 3450, 3550, 4200>>
sev_dchg_cr == <<0, 0, 200, 250, 380, 500, 500>>

\* Each limit is a record [c |-> charge mA, d |-> discharge mA]
temp_limit(temp_deci_c) ==
    [c |-> centi_c_to_ma(interp_i32(temp_chg_bp, temp_chg_cr, temp_deci_c)),
     d |-> centi_c_to_ma(interp_i32(temp_dchg_bp, temp_dchg_cr, temp_deci_c))]

soc_limit(soc_hundredths) ==
    [c |-> centi_c_to_ma(interp_i32(soc_chg_bp, soc_chg_cr, soc_hundredths)),
     d |-> centi_c_to_ma(interp_i32(soc_dchg_bp, soc_dchg_cr, soc_hundredths))]

sev_limit(cell_mv) ==
    [c |-> centi_c_to_ma(interp_i32(sev_chg_bp, sev_chg_cr, cell_mv)),
     d |-> centi_c_to_ma(interp_i32(sev_dchg_bp, sev_dchg_cr, cell_mv))]

\* bms_current_limit_compute on a pack record p
bms_current_limit_compute(p) ==
    LET t == temp_limit(p.max_temp_deci_c)
        s == soc_limit(p.soc_hundredths)
        vc == sev_limit(p.max_cell_mv).c
        vd == sev_limit(p.min_cell_mv).d
    IN  [c |-> Max(0, Min(t.c, Min(s.c, vc))),
         d |-> Max(0, Min(t.d, Min(s.d, vd)))]

(***************************************************************************)
(* Model bounds.  The pack has BMS_NUM_MODULES = 22 modules of 14 cells    *)
(* and 3 sensors; the model scans NumModules modules of one cell and one   *)
(* temperature sensor each, so cell i and sensor i belong to module i.     *)
(***************************************************************************)
NumModules == 2
Modules == 1..NumModules
Cells == 1..NumModules
Sensors == 1..NumModules

(***************************************************************************)
(* bms_types.h                                                             *)
(***************************************************************************)
Modes == {"OFF", "POWER_SAVE", "FAULT", "READY", "CONNECTING", "CONNECTED", "NOT_READY"}
ContactorStates == {"OPEN", "PRE_CHARGE", "CLOSING", "CLOSED", "OPENING", "WELDED"}
EmsCmdTypes == {"NONE", "CONNECT_CHG", "CONNECT_DCHG", "DISCONNECT", "RESET_FAULTS",
                "POWER_SAVE", "SET_LIMITS"}

\* bms_fault_flags_t, all bits clear
NoFaults ==
    [cell_ov |-> FALSE, cell_uv |-> FALSE, cell_ot |-> FALSE,
     hw_ov |-> FALSE, hw_uv |-> FALSE, hw_ot |-> FALSE,
     oc_charge |-> FALSE, oc_discharge |-> FALSE, sc_discharge |-> FALSE,
     contactor_weld |-> FALSE, ems_timeout |-> FALSE, comm_loss |-> FALSE,
     imbalance |-> FALSE]

\* bms_protection_init: memset(prot, 0)
ProtZero ==
    [ov_timer_ms |-> [i \in Cells |-> 0],
     uv_timer_ms |-> [i \in Cells |-> 0],
     ot_timer_ms |-> [i \in Sensors |-> 0],
     hw_ov_timer_ms |-> 0, hw_uv_timer_ms |-> 0, hw_ot_timer_ms |-> 0,
     oc_charge_timer_ms |-> 0, oc_discharge_timer_ms |-> 0,
     safe_state_ms |-> 0,
     warn_ov_timer_ms |-> 0, warn_uv_timer_ms |-> 0, warn_ot_timer_ms |-> 0,
     warning_hold_ms |-> 0,
     warn_ov_active |-> FALSE, warn_uv_active |-> FALSE, warn_ot_active |-> FALSE]

(***************************************************************************)
(* Protection: bms_protection.c.  Each operator takes the protection state *)
(* pr and the pack record pk and returns [prot |-> ..., pack |-> ...].     *)
(***************************************************************************)
bms_protection_hw_safety(pr, pk, dt_ms) ==
    LET any_hw_ov == \E i \in Cells : pk.cell_mv[i] >= BMS_HW_OV_MV
        any_hw_uv == \E i \in Cells : pk.cell_mv[i] > 0 /\ pk.cell_mv[i] <= BMS_HW_UV_MV
        any_hw_ot == \E s \in Sensors : pk.temp_deci_c[s] >= BMS_HW_OT_DECI_C
        ovt == IF any_hw_ov THEN leak_increment(pr.hw_ov_timer_ms, dt_ms)
                            ELSE leak_decay(pr.hw_ov_timer_ms, dt_ms)
        uvt == IF any_hw_uv THEN leak_increment(pr.hw_uv_timer_ms, dt_ms)
                            ELSE leak_decay(pr.hw_uv_timer_ms, dt_ms)
        ott == IF any_hw_ot THEN leak_increment(pr.hw_ot_timer_ms, dt_ms)
                            ELSE leak_decay(pr.hw_ot_timer_ms, dt_ms)
        ovf == any_hw_ov /\ ovt >= BMS_HW_OV_DELAY_MS
        uvf == any_hw_uv /\ uvt >= BMS_HW_UV_DELAY_MS
        otf == any_hw_ot /\ ott >= BMS_HW_OT_DELAY_MS
    IN  [prot |-> [pr EXCEPT !.hw_ov_timer_ms = ovt, !.hw_uv_timer_ms = uvt,
                             !.hw_ot_timer_ms = ott],
         pack |-> [pk EXCEPT !.faults.hw_ov = @ \/ ovf,
                             !.faults.hw_uv = @ \/ uvf,
                             !.faults.hw_ot = @ \/ otf,
                             !.fault_latched = @ \/ ovf \/ uvf \/ otf]]

\* Fault-latched branch of bms_protection_run: safe-state accumulation only
safe_state_update(pr, pk, dt_ms) ==
    LET all_safe == \A i \in Cells :
                       ~(pk.cell_mv[i] >= BMS_SE_OV_FAULT_MV
                         \/ (pk.cell_mv[i] > 0 /\ pk.cell_mv[i] <= BMS_SE_UV_FAULT_MV))
    IN  IF all_safe /\ pk.max_temp_deci_c < BMS_SE_OT_FAULT_DECI_C
        THEN [pr EXCEPT !.safe_state_ms = leak_increment(@, dt_ms)]
        ELSE [pr EXCEPT !.safe_state_ms = 0]

\* Per-cell OV loop from cell i on; ret is TRUE when the loop returned on a fault
RECURSIVE ov_check(_, _, _, _)
ov_check(pr, pk, dt_ms, i) ==
    IF i > NumModules THEN [prot |-> pr, pack |-> pk, ret |-> FALSE]
    ELSE IF pk.cell_mv[i] >= BMS_SE_OV_FAULT_MV
         THEN LET t == leak_increment(pr.ov_timer_ms[i], dt_ms)
                  pr1 == [pr EXCEPT !.ov_timer_ms[i] = t]
              IN  IF t >= BMS_SE_FAULT_DELAY_MS
                  THEN [prot |-> pr1,
                        pack |-> [pk EXCEPT !.faults.cell_ov = TRUE, !.fault_latched = TRUE],
                        ret |-> TRUE]
                  ELSE ov_check(pr1, pk, dt_ms, i + 1)
         ELSE ov_check([pr EXCEPT !.ov_timer_ms[i] = leak_decay(@, dt_ms)], pk, dt_ms, i + 1)

\* Per-cell UV loop; a cell reading 0 is skipped (its timer is left alone)
RECURSIVE uv_check(_, _, _, _)
uv_check(pr, pk, dt_ms, i) ==
    IF i > NumModules THEN [prot |-> pr, pack |-> pk, ret |-> FALSE]
    ELSE IF pk.cell_mv[i] = 0 THEN uv_check(pr, pk, dt_ms, i + 1)
    ELSE IF pk.cell_mv[i] <= BMS_SE_UV_FAULT_MV
         THEN LET t == leak_increment(pr.uv_timer_ms[i], dt_ms)
                  pr1 == [pr EXCEPT !.uv_timer_ms[i] = t]
              IN  IF t >= BMS_SE_FAULT_DELAY_MS
                  THEN [prot |-> pr1,
                        pack |-> [pk EXCEPT !.faults.cell_uv = TRUE, !.fault_latched = TRUE],
                        ret |-> TRUE]
                  ELSE uv_check(pr1, pk, dt_ms, i + 1)
         ELSE uv_check([pr EXCEPT !.uv_timer_ms[i] = leak_decay(@, dt_ms)], pk, dt_ms, i + 1)

\* Per-sensor OT loop
RECURSIVE ot_check(_, _, _, _)
ot_check(pr, pk, dt_ms, s) ==
    IF s > NumModules THEN [prot |-> pr, pack |-> pk, ret |-> FALSE]
    ELSE IF pk.temp_deci_c[s] >= BMS_SE_OT_FAULT_DECI_C
         THEN LET t == leak_increment(pr.ot_timer_ms[s], dt_ms)
                  pr1 == [pr EXCEPT !.ot_timer_ms[s] = t]
              IN  IF t >= BMS_SE_FAULT_DELAY_MS
                  THEN [prot |-> pr1,
                        pack |-> [pk EXCEPT !.faults.cell_ot = TRUE, !.fault_latched = TRUE],
                        ret |-> TRUE]
                  ELSE ot_check(pr1, pk, dt_ms, s + 1)
         ELSE ot_check([pr EXCEPT !.ot_timer_ms[s] = leak_decay(@, dt_ms)], pk, dt_ms, s + 1)

\* Temperature-dependent overcurrent block (no return on fault)
oc_check(pr, pk, dt_ms) ==
    LET lim == bms_current_limit_compute(pk)
        cur == pk.pack_current_ma
        chg_cond == cur > 0 /\ pk.min_temp_deci_c < 0 /\ cur > lim.c
        t1 == IF chg_cond THEN leak_increment(pr.oc_charge_timer_ms, dt_ms)
                          ELSE leak_decay(pr.oc_charge_timer_ms, dt_ms)
        chg_fault == chg_cond /\ t1 >= BMS_SE_FAULT_DELAY_MS
        dchg_cond == cur < -BMS_MAX_DISCHARGE_MA
        t2 == IF dchg_cond THEN leak_increment(pr.oc_discharge_timer_ms, dt_ms)
                           ELSE leak_decay(pr.oc_discharge_timer_ms, dt_ms)
        dchg_fault == dchg_cond /\ t2 >= BMS_SE_FAULT_DELAY_MS
        oc_warn_thresh == CDiv(lim.c * BMS_OC_WARN_MARGIN_PPT, 1000) + BMS_OC_WARN_OFFSET_MA
        \* the OC warning piggybacks on the charge fault timer
        t3 == IF cur > oc_warn_thresh THEN leak_increment(t1, dt_ms) ELSE t1
    IN  [prot |-> [pr EXCEPT !.oc_charge_timer_ms = t3, !.oc_discharge_timer_ms = t2],
         pack |-> [pk EXCEPT !.faults.oc_charge = @ \/ chg_fault,
                             !.faults.oc_discharge = @ \/ dchg_fault,
                             !.fault_latched = @ \/ chg_fault \/ dchg_fault]]

\* Warning timers with hysteresis and the aggregate hold timer
warn_check(pr, pk, dt_ms) ==
    LET ov_th == IF pr.warn_ov_active THEN BMS_SE_OV_WARN_CLEAR_MV ELSE BMS_SE_OV_WARN_MV
        uv_th == IF pr.warn_uv_active THEN BMS_SE_UV_WARN_CLEAR_MV ELSE BMS_SE_UV_WARN_MV
        ot_th == IF pr.warn_ot_active THEN BMS_SE_OT_WARN_CLEAR_DC ELSE BMS_SE_OT_WARN_DECI_C
        warn_cond_ov == \E i \in Cells : pk.cell_mv[i] >= ov_th
        warn_cond_uv == \E i \in Cells : pk.cell_mv[i] # 0 /\ pk.cell_mv[i] <= uv_th
        warn_cond_ot == pk.max_temp_deci_c >= ot_th
        ovt == IF warn_cond_ov THEN leak_increment(pr.warn_ov_timer_ms, dt_ms)
                               ELSE leak_decay(pr.warn_ov_timer_ms, dt_ms)
        uvt == IF warn_cond_uv THEN leak_increment(pr.warn_uv_timer_ms, dt_ms)
                               ELSE leak_decay(pr.warn_uv_timer_ms, dt_ms)
        ott == IF warn_cond_ot THEN leak_increment(pr.warn_ot_timer_ms, dt_ms)
                               ELSE leak_decay(pr.warn_ot_timer_ms, dt_ms)
        ova == IF warn_cond_ov THEN (pr.warn_ov_active \/ ovt >= BMS_WARN_DELAY_MS)
                               ELSE (pr.warn_ov_active /\ ovt # 0)
        uva == IF warn_cond_uv THEN (pr.warn_uv_active \/ uvt >= BMS_WARN_DELAY_MS)
                               ELSE (pr.warn_uv_active /\ uvt # 0)
        ota == IF warn_cond_ot THEN (pr.warn_ot_active \/ ott >= BMS_WARN_DELAY_MS)
                               ELSE (pr.warn_ot_active /\ ott # 0)
        any_active == ova \/ uva \/ ota
        hold == IF any_active THEN BMS_WARN_HOLD_MS
                ELSE IF pr.warning_hold_ms > dt_ms THEN pr.warning_hold_ms - dt_ms
                ELSE 0
    IN  [prot |-> [pr EXCEPT !.warn_ov_timer_ms = ovt, !.warn_uv_timer_ms = uvt,
                             !.warn_ot_timer_ms = ott,
                             !.warn_ov_active = ova, !.warn_uv_active = uva,
                             !.warn_ot_active = ota,
                             !.warning_hold_ms = hold],
         pack |-> [pk EXCEPT !.has_warning = any_active \/ hold > 0]]

\* Variant: a latched pack skips the HW-safety pass as well
bms_protection_run_latched_skips_hw(pr, pk, dt_ms) ==
    LET hw == IF pk.fault_latched THEN [prot |-> pr, pack |-> pk]
                       ELSE bms_protection_hw_safety(pr, pk, dt_ms)
    IN  IF hw.pack.fault_latched
        THEN [prot |-> safe_state_update(hw.prot, hw.pack, dt_ms), pack |-> hw.pack]
        ELSE LET ov == ov_check(hw.prot, hw.pack, dt_ms, 1)
             IN  IF ov.ret THEN [prot |-> ov.prot, pack |-> ov.pack]
                 ELSE LET uv == uv_check(ov.prot, ov.pack, dt_ms, 1)
                      IN  IF uv.ret THEN [prot |-> uv.prot, pack |-> uv.pack]
                          ELSE LET ot == ot_check(uv.prot, uv.pack, dt_ms, 1)
                               IN  IF ot.ret THEN [prot |-> ot.prot, pack |-> ot.pack]
                                   ELSE LET oc == oc_check(ot.prot, ot.pack, dt_ms)
                                        IN  warn_check(oc.prot, oc.pack, dt_ms)

bms_protection_run(pr, pk, dt_ms) ==
    LET hw == bms_protection_hw_safety(pr, pk, dt_ms)
    IN  IF hw.pack.fault_latched
        THEN [prot |-> safe_state_update(hw.prot, hw.pack, dt_ms), pack |-> hw.pack]
        ELSE LET ov == ov_check(hw.prot, hw.pack, dt_ms, 1)
             IN  IF ov.ret THEN [prot |-> ov.prot, pack |-> ov.pack]
                 ELSE LET uv == uv_check(ov.prot, ov.pack, dt_ms, 1)
                      IN  IF uv.ret THEN [prot |-> uv.prot, pack |-> uv.pack]
                          ELSE LET ot == ot_check(uv.prot, uv.pack, dt_ms, 1)
                               IN  IF ot.ret THEN [prot |-> ot.prot, pack |-> ot.pack]
                                   ELSE LET oc == oc_check(ot.prot, ot.pack, dt_ms)
                                        IN  warn_check(oc.prot, oc.pack, dt_ms)

bms_protection_can_reset(pr, pk) ==
    IF ~pk.fault_latched THEN TRUE
    ELSE pr.safe_state_ms >= BMS_FAULT_RESET_HOLD_MS

bms_protection_reset(pr, pk) ==
    [prot |-> ProtZero,
     pack |-> [pk EXCEPT !.faults = NoFaults, !.fault_latched = FALSE,
                         !.has_warning = FALSE]]

(***************************************************************************)
(* State of charge: bms_soc.c.  so is [s_soc_hundredths, s_low_current_ms] *)
(***************************************************************************)
ocv_soc_bp == <<0, 200, 500, 800, 1000, 1500, 2000, 2500,
                3000, 3500, 4000, 4500, 5000, 5500, 6000, 6500,
                7000, 7500, 8000, 8500, 9000, 9500, 9800, 10000>>
ocv_mv_bp == <<3000, 3280, 3420, 3480, 3510, 3555, 3590, 3610,
               3625, 3638, 3650, 3662, 3675, 3690, 3710, 3735,
               3765, 3800, 3845, 3900, 3960, 4030, 4100, 4190>>

bms_soc_from_ocv(cell_mv) == interp_i32(ocv_mv_bp, ocv_soc_bp, cell_mv)

bms_soc_update(so, pk, dt_ms) ==
    LET delta == CDiv(pk.pack_current_ma * dt_ms, BMS_NOMINAL_CAPACITY_MAH * 360)
        new_soc == Min(10000, Max(0, so.s_soc_hundredths + delta))
        low == IF Abs(pk.pack_current_ma) < SOC_LOW_CURRENT_MA
               THEN (IF FitsU32(so.s_low_current_ms + dt_ms)
                     THEN so.s_low_current_ms + dt_ms ELSE so.s_low_current_ms)
               ELSE 0
        ocv == low >= SOC_OCV_RESET_MS /\ pk.mode = "READY"
        soc2 == IF ocv THEN bms_soc_from_ocv(pk.avg_cell_mv) ELSE new_soc
    IN  [soc |-> [s_soc_hundredths |-> soc2,
                  s_low_current_ms |-> IF ocv THEN 0 ELSE low],
         pack |-> [pk EXCEPT !.soc_hundredths = soc2]]

(***************************************************************************)
(* Cell balancing: bms_balance.c.  ba is [active, cell_mask]; with one     *)
(* cell per module the mask of a module is a single bit.                   *)
(***************************************************************************)
BALANCE_MAX_CURRENT_MA == 25600
BMS_BALANCE_THRESHOLD_MV == 20

BalanceOff == [active |-> FALSE, cell_mask |-> [m \in Modules |-> 0]]

bms_balance_run(ba, pk) ==
    IF \/ pk.mode \notin {"READY", "CONNECTED"}
       \/ Abs(pk.pack_current_ma) > BALANCE_MAX_CURRENT_MA
       \/ pk.max_cell_mv - pk.min_cell_mv <= BMS_BALANCE_THRESHOLD_MV
    THEN IF ba.active THEN BalanceOff ELSE ba
    ELSE LET balance_target == pk.min_cell_mv + BMS_BALANCE_THRESHOLD_MV \div 2
         IN  [active |-> TRUE,
              cell_mask |-> [m \in Modules |->
                               IF pk.cell_mv[m] > balance_target THEN 1 ELSE 0]]

(***************************************************************************)
(* Monitor: bms_monitor.c and the AFE driver bms_bq76952.c.  h is the      *)
(* hardware seen through the HAL: cell registers (mV), thermistor          *)
(* registers (0.1 K), safety status bits per module and the I2C failure    *)
(* switch.                                                                 *)
(***************************************************************************)
KELVIN_OFFSET == 2731

bq76952_read_temperature(raw) == raw - KELVIN_OFFSET

bms_monitor_read_module(pk, h, mod) ==
    IF h.i2c_fail
    THEN [pk EXCEPT !.comm_ok[mod] = FALSE, !.faults.comm_loss = TRUE]
    ELSE [pk EXCEPT !.comm_ok[mod] = TRUE,
                    !.cell_mv[mod] = h.cell_mv[mod],
                    !.temp_deci_c[mod] = bq76952_read_temperature(h.temp_raw[mod]),
                    !.faults.hw_ov = @ \/ h.ssa_ov[mod],
                    !.faults.hw_uv = @ \/ h.ssa_uv[mod],
                    !.faults.sc_discharge = @ \/ h.ssa_sc[mod],
                    !.faults.hw_ot = @ \/ h.ssb_ot[mod]]

RECURSIVE SumCells(_, _)
SumCells(cell_mv, i) == IF i = 0 THEN 0 ELSE cell_mv[i] + SumCells(cell_mv, i - 1)

SetMax(S) == CHOOSE x \in S : \A y \in S : y <= x
SetMin(S) == CHOOSE x \in S : \A y \in S : x <= y

bms_monitor_aggregate(pk) ==
    LET sum_mv == SumCells(pk.cell_mv, NumModules)
        max_mv == SetMax({pk.cell_mv[i] : i \in Cells} \cup {0})
        min_mv == SetMin({pk.cell_mv[i] : i \in Cells} \cup {65535})
        max_temp == SetMax({pk.temp_deci_c[s] : s \in Sensors} \cup {-400})
        min_temp == SetMin({pk.temp_deci_c[s] : s \in Sensors} \cup {7000})
        imb == max_mv - min_mv > BMS_IMBALANCE_WARN_MV
    IN  [pk EXCEPT !.max_cell_mv = max_mv, !.min_cell_mv = min_mv,
                   !.avg_cell_mv = sum_mv \div NumModules,
                   !.pack_voltage_mv = sum_mv,
                   !.max_temp_deci_c = max_temp, !.min_temp_deci_c = min_temp,
                   !.faults.imbalance = imb,
                   !.has_warning = @ \/ imb]

\* sc is [s_current_module, s_scan_complete, s_scan_count]
bms_monitor_run(pk, sc, so, ba, h) ==
    LET p1 == bms_monitor_read_module(pk, h, sc.s_current_module)
        done == sc.s_current_module + 1 > NumModules
        p2 == IF done THEN bms_monitor_aggregate(p1) ELSE p1
        su == bms_soc_update(so, p2, BMS_MONITOR_PERIOD_MS)
        lim == bms_current_limit_compute(su.pack)
        p3 == [su.pack EXCEPT !.charge_limit_ma = lim.c, !.discharge_limit_ma = lim.d]
    IN  [pack |-> [p3 EXCEPT !.uptime_ms = AddU32(@, BMS_MONITOR_PERIOD_MS)],
         scan |-> [s_current_module |-> IF done THEN 1 ELSE sc.s_current_module + 1,
                   s_scan_complete |-> done,
                   s_scan_count |-> IF done THEN sc.s_scan_count + 1 ELSE sc.s_scan_count],
         soc |-> su.soc,
         bal |-> bms_balance_run(ba, p3)]

(***************************************************************************)
(* Contactor: bms_contactor.c.  cx is the context, g the three contactor   *)
(* GPIO outputs [pos, neg, precharge].                                     *)
(***************************************************************************)
\* state_timer_ms is only read in PRE_CHARGE, CLOSING and OPENING, against
\* thresholds of at most BMS_PRECHARGE_TIMEOUT_MS, and every way out of OPEN,
\* CLOSED and WELDED resets it before it is read: the model stops counting at
\* the cap, and does not count in the states where the timer is dead.
StateTimerCap == 5000
TimedStates == {"PRE_CHARGE", "CLOSING", "OPENING"}

(* all_contactors_off leaving the main negative contactor energised. *)
all_contactors_off_keeps_negative == [pos |-> FALSE, neg |-> TRUE, precharge |-> FALSE]

all_contactors_off == [pos |-> FALSE, neg |-> FALSE, precharge |-> FALSE]

ContactorInit ==
    [state |-> "OPEN", state_timer_ms |-> 0, bus_voltage_mv |-> 0,
     close_requested |-> FALSE, open_requested |-> FALSE]

bms_contactor_request_close(cx, bus_voltage_mv) ==
    IF cx.state = "OPEN"
    THEN [cx EXCEPT !.close_requested = TRUE, !.bus_voltage_mv = bus_voltage_mv]
    ELSE cx

\* Variant: an open request is accepted only once the contactors are closed
bms_contactor_request_open_when_closed(cx) ==
    IF cx.state = "CLOSED"
    THEN [cx EXCEPT !.open_requested = TRUE]
    ELSE cx

bms_contactor_request_open(cx) ==
    IF cx.state \in {"CLOSED", "PRE_CHARGE", "CLOSING"}
    THEN [cx EXCEPT !.open_requested = TRUE]
    ELSE cx

bms_contactor_is_faulted(cx) == cx.state = "WELDED"

\* Variant: the pre-charge times out only once the timeout is exceeded
bms_contactor_run_late_timeout(cx, pk, g, fb_pos, fb_neg, dt_ms) ==
    LET t == IF cx.state \in TimedStates
             THEN Min(cx.state_timer_ms + dt_ms, StateTimerCap)
             ELSE cx.state_timer_ms
        c0 == [cx EXCEPT !.state_timer_ms = t]
        to_opening == [ctx |-> [c0 EXCEPT !.open_requested = FALSE, !.state = "OPENING",
                                          !.state_timer_ms = 0],
                       pack |-> pk, gpio |-> all_contactors_off]
        same == [ctx |-> c0, pack |-> pk, gpio |-> g]
    IN  CASE cx.state = "OPEN" ->
               IF cx.close_requested
               THEN [ctx |-> [c0 EXCEPT !.close_requested = FALSE, !.state = "PRE_CHARGE",
                                        !.state_timer_ms = 0],
                     pack |-> pk,
                     gpio |-> [g EXCEPT !.neg = TRUE, !.precharge = TRUE]]
               ELSE same
          [] cx.state = "PRE_CHARGE" ->
               IF cx.open_requested THEN to_opening
               ELSE LET target_mv == (cx.bus_voltage_mv * BMS_PRECHARGE_VOLT_PCT) \div 100
                    IN  IF pk.pack_voltage_mv >= target_mv
                        THEN [ctx |-> [c0 EXCEPT !.state = "CLOSING", !.state_timer_ms = 0],
                              pack |-> pk,
                              gpio |-> [g EXCEPT !.pos = TRUE, !.precharge = FALSE]]
                        ELSE IF t > BMS_PRECHARGE_TIMEOUT_MS
                        THEN [ctx |-> [c0 EXCEPT !.state = "OPEN", !.state_timer_ms = 0],
                              pack |-> pk, gpio |-> all_contactors_off]
                        ELSE same
          [] cx.state = "CLOSING" ->
               IF cx.open_requested THEN to_opening
               ELSE IF fb_pos /\ fb_neg
               THEN [ctx |-> [c0 EXCEPT !.state = "CLOSED", !.state_timer_ms = 0],
                     pack |-> [pk EXCEPT !.contactor_state = "CLOSED"], gpio |-> g]
               ELSE IF t >= BMS_CONTACTOR_CLOSE_MS
               THEN [ctx |-> [c0 EXCEPT !.state = "OPEN", !.state_timer_ms = 0],
                     pack |-> pk, gpio |-> all_contactors_off]
               ELSE same
          [] cx.state = "CLOSED" ->
               IF cx.open_requested THEN to_opening ELSE same
          [] cx.state = "OPENING" ->
               IF Abs(pk.pack_current_ma) < 1000
               THEN [ctx |-> [c0 EXCEPT !.state = "OPEN", !.state_timer_ms = 0],
                     pack |-> [pk EXCEPT !.contactor_state = "OPEN"], gpio |-> g]
               ELSE IF t >= BMS_WELD_DETECT_MS
               THEN [ctx |-> [c0 EXCEPT !.state = "WELDED"],
                     pack |-> [pk EXCEPT !.contactor_state = "WELDED",
                                         !.faults.contactor_weld = TRUE,
                                         !.fault_latched = TRUE],
                     gpio |-> g]
               ELSE same
          [] OTHER -> same

\* Returns [ctx, pack, gpio]; fb_pos, fb_neg are the feedback inputs
bms_contactor_run(cx, pk, g, fb_pos, fb_neg, dt_ms) ==
    LET t == IF cx.state \in TimedStates
             THEN Min(cx.state_timer_ms + dt_ms, StateTimerCap)
             ELSE cx.state_timer_ms
        c0 == [cx EXCEPT !.state_timer_ms = t]
        to_opening == [ctx |-> [c0 EXCEPT !.open_requested = FALSE, !.state = "OPENING",
                                          !.state_timer_ms = 0],
                       pack |-> pk, gpio |-> all_contactors_off]
        same == [ctx |-> c0, pack |-> pk, gpio |-> g]
    IN  CASE cx.state = "OPEN" ->
               IF cx.close_requested
               THEN [ctx |-> [c0 EXCEPT !.close_requested = FALSE, !.state = "PRE_CHARGE",
                                        !.state_timer_ms = 0],
                     pack |-> pk,
                     gpio |-> [g EXCEPT !.neg = TRUE, !.precharge = TRUE]]
               ELSE same
          [] cx.state = "PRE_CHARGE" ->
               IF cx.open_requested THEN to_opening
               ELSE LET target_mv == (cx.bus_voltage_mv * BMS_PRECHARGE_VOLT_PCT) \div 100
                    IN  IF pk.pack_voltage_mv >= target_mv
                        THEN [ctx |-> [c0 EXCEPT !.state = "CLOSING", !.state_timer_ms = 0],
                              pack |-> pk,
                              gpio |-> [g EXCEPT !.pos = TRUE, !.precharge = FALSE]]
                        ELSE IF t >= BMS_PRECHARGE_TIMEOUT_MS
                        THEN [ctx |-> [c0 EXCEPT !.state = "OPEN", !.state_timer_ms = 0],
                              pack |-> pk, gpio |-> all_contactors_off]
                        ELSE same
          [] cx.state = "CLOSING" ->
               IF cx.open_requested THEN to_opening
               ELSE IF fb_pos /\ fb_neg
               THEN [ctx |-> [c0 EXCEPT !.state = "CLOSED", !.state_timer_ms = 0],
                     pack |-> [pk EXCEPT !.contactor_state = "CLOSED"], gpio |-> g]
               ELSE IF t >= BMS_CONTACTOR_CLOSE_MS
               THEN [ctx |-> [c0 EXCEPT !.state = "OPEN", !.state_timer_ms = 0],
                     pack |-> pk, gpio |-> all_contactors_off]
               ELSE same
          [] cx.state = "CLOSED" ->
               IF cx.open_requested THEN to_opening ELSE same
          [] cx.state = "OPENING" ->
               IF Abs(pk.pack_current_ma) < 1000
               THEN [ctx |-> [c0 EXCEPT !.state = "OPEN", !.state_timer_ms = 0],
                     pack |-> [pk EXCEPT !.contactor_state = "OPEN"], gpio |-> g]
               ELSE IF t >= BMS_WELD_DETECT_MS
               THEN [ctx |-> [c0 EXCEPT !.state = "WELDED"],
                     pack |-> [pk EXCEPT !.contactor_state = "WELDED",
                                         !.faults.contactor_weld = TRUE,
                                         !.fault_latched = TRUE],
                     gpio |-> g]
               ELSE same
          [] OTHER -> same

(***************************************************************************)
(* Pack mode state machine: bms_state.c.  A command is a record            *)
(* [type, charge_limit_ma, discharge_limit_ma, timestamp_ms]; the null     *)
(* pointer is the command of type "NULL".                                  *)
(***************************************************************************)
NullCmd == [type |-> "NULL", charge_limit_ma |-> 0, discharge_limit_ma |-> 0,
            timestamp_ms |-> 0]

\* Returns [pack, ctx]
bms_state_enter_fault(pk, cx) ==
    [pack |-> [pk EXCEPT !.mode = "FAULT", !.charge_limit_ma = 0,
                         !.discharge_limit_ma = 0],
     ctx |-> bms_contactor_request_open(cx)]

\* One case of the mode switch each; all return [pack, ctx, prot]
state_ready(pk, cx, pr, cmd) ==
    IF cmd.type \in {"CONNECT_CHG", "CONNECT_DCHG"}
    THEN [pack |-> [pk EXCEPT !.mode = "CONNECTING", !.last_ems_msg_ms = pk.uptime_ms],
          ctx |-> bms_contactor_request_close(cx, pk.pack_voltage_mv), prot |-> pr]
    ELSE IF cmd.type = "POWER_SAVE"
    THEN [pack |-> [pk EXCEPT !.mode = "POWER_SAVE"], ctx |-> cx, prot |-> pr]
    ELSE [pack |-> pk, ctx |-> cx, prot |-> pr]

state_connecting(pk, cx, pr, cmd) ==
    LET p1 == IF cmd.type \notin {"NULL", "NONE"}
              THEN [pk EXCEPT !.last_ems_msg_ms = cmd.timestamp_ms] ELSE pk
        r2 == IF cx.state = "CLOSED"
              THEN [pack |-> [p1 EXCEPT !.mode = "CONNECTED"], ctx |-> cx]
              ELSE IF cx.state = "OPEN"
              THEN [pack |-> [p1 EXCEPT !.mode = "READY"], ctx |-> cx]
              ELSE IF bms_contactor_is_faulted(cx)
              THEN bms_state_enter_fault(p1, cx)
              ELSE [pack |-> p1, ctx |-> cx]
    IN  IF cmd.type = "DISCONNECT"
        THEN [pack |-> [r2.pack EXCEPT !.mode = "READY"],
              ctx |-> bms_contactor_request_open(r2.ctx), prot |-> pr]
        ELSE [pack |-> r2.pack, ctx |-> r2.ctx, prot |-> pr]

state_connected(pk, cx, pr, cmd) ==
    LET p1 == IF cmd.type # "NULL"
              THEN [pk EXCEPT !.last_ems_msg_ms = cmd.timestamp_ms] ELSE pk
        r2 == IF cmd.type = "DISCONNECT"
              THEN [pack |-> [p1 EXCEPT !.mode = "READY"],
                    ctx |-> bms_contactor_request_open(cx)]
              ELSE IF cmd.type = "SET_LIMITS"
              THEN [pack |-> [p1 EXCEPT
                        !.charge_limit_ma =
                            IF cmd.charge_limit_ma < @ THEN cmd.charge_limit_ma ELSE @,
                        !.discharge_limit_ma =
                            IF cmd.discharge_limit_ma < @ THEN cmd.discharge_limit_ma ELSE @],
                    ctx |-> cx]
              ELSE [pack |-> p1, ctx |-> cx]
        r3 == IF bms_contactor_is_faulted(r2.ctx)
              THEN bms_state_enter_fault(r2.pack, r2.ctx) ELSE r2
    IN  [pack |-> r3.pack, ctx |-> r3.ctx, prot |-> pr]

state_fault(pk, cx, pr, cmd) ==
    IF cmd.type = "RESET_FAULTS" /\ bms_protection_can_reset(pr, pk)
    THEN LET r == bms_protection_reset(pr, pk)
         IN  [pack |-> [r.pack EXCEPT !.mode = "READY"], ctx |-> cx, prot |-> r.prot]
    ELSE [pack |-> pk, ctx |-> cx, prot |-> pr]

\* Variant: the latch forces FAULT only while connecting or connected
bms_state_run_latch_when_connected(pk, cx, pr, cmd) ==
    IF pk.fault_latched /\ pk.mode \in {"CONNECTING", "CONNECTED"}
    THEN LET f == bms_state_enter_fault(pk, cx)
         IN  [pack |-> f.pack, ctx |-> f.ctx, prot |-> pr]
    ELSE IF /\ pk.mode \in {"CONNECTED", "CONNECTING"}
            /\ GtU32(SubU32(pk.uptime_ms, pk.last_ems_msg_ms), BMS_EMS_WATCHDOG_MS)
    THEN LET f == bms_state_enter_fault([pk EXCEPT !.faults.ems_timeout = TRUE], cx)
         IN  [pack |-> f.pack, ctx |-> f.ctx, prot |-> pr]
    ELSE CASE pk.mode = "NOT_READY" ->
                [pack |-> IF \A m \in Modules : pk.comm_ok[m]
                          THEN [pk EXCEPT !.mode = "READY"] ELSE pk,
                 ctx |-> cx, prot |-> pr]
           [] pk.mode = "READY" -> state_ready(pk, cx, pr, cmd)
           [] pk.mode = "CONNECTING" -> state_connecting(pk, cx, pr, cmd)
           [] pk.mode = "CONNECTED" -> state_connected(pk, cx, pr, cmd)
           [] pk.mode = "POWER_SAVE" ->
                [pack |-> IF cmd.type \notin {"NULL", "NONE", "POWER_SAVE"}
                          THEN [pk EXCEPT !.mode = "READY"] ELSE pk,
                 ctx |-> cx, prot |-> pr]
           [] pk.mode = "FAULT" -> state_fault(pk, cx, pr, cmd)
           [] OTHER -> [pack |-> pk, ctx |-> cx, prot |-> pr]

\* Variant: the EMS watchdog is looked at only once connected
bms_state_run_watchdog_when_connected(pk, cx, pr, cmd) ==
    IF pk.fault_latched /\ pk.mode # "FAULT"
    THEN LET f == bms_state_enter_fault(pk, cx)
         IN  [pack |-> f.pack, ctx |-> f.ctx, prot |-> pr]
    ELSE IF /\ pk.mode = "CONNECTED"
            /\ GtU32(SubU32(pk.uptime_ms, pk.last_ems_msg_ms), BMS_EMS_WATCHDOG_MS)
    THEN LET f == bms_state_enter_fault([pk EXCEPT !.faults.ems_timeout = TRUE], cx)
         IN  [pack |-> f.pack, ctx |-> f.ctx, prot |-> pr]
    ELSE CASE pk.mode = "NOT_READY" ->
                [pack |-> IF \A m \in Modules : pk.comm_ok[m]
                          THEN [pk EXCEPT !.mode = "READY"] ELSE pk,
                 ctx |-> cx, prot |-> pr]
           [] pk.mode = "READY" -> state_ready(pk, cx, pr, cmd)
           [] pk.mode = "CONNECTING" -> state_connecting(pk, cx, pr, cmd)
           [] pk.mode = "CONNECTED" -> state_connected(pk, cx, pr, cmd)
           [] pk.mode = "POWER_SAVE" ->
                [pack |-> IF cmd.type \notin {"NULL", "NONE", "POWER_SAVE"}
                          THEN [pk EXCEPT !.mode = "READY"] ELSE pk,
                 ctx |-> cx, prot |-> pr]
           [] pk.mode = "FAULT" -> state_fault(pk, cx, pr, cmd)
           [] OTHER -> [pack |-> pk, ctx |-> cx, prot |-> pr]

bms_state_run(pk, cx, pr, cmd) ==
    IF pk.fault_latched /\ pk.mode # "FAULT"
    THEN LET f == bms_state_enter_fault(pk, cx)
         IN  [pack |-> f.pack, ctx |-> f.ctx, prot |-> pr]
    ELSE IF /\ pk.mode \in {"CONNECTED", "CONNECTING"}
            /\ GtU32(SubU32(pk.uptime_ms, pk.last_ems_msg_ms), BMS_EMS_WATCHDOG_MS)
    THEN LET f == bms_state_enter_fault([pk EXCEPT !.faults.ems_timeout = TRUE], cx)
         IN  [pack |-> f.pack, ctx |-> f.ctx, prot |-> pr]
    ELSE CASE pk.mode = "NOT_READY" ->
                [pack |-> IF \A m \in Modules : pk.comm_ok[m]
                          THEN [pk EXCEPT !.mode = "READY"] ELSE pk,
                 ctx |-> cx, prot |-> pr]
           [] pk.mode = "READY" -> state_ready(pk, cx, pr, cmd)
           [] pk.mode = "CONNECTING" -> state_connecting(pk, cx, pr, cmd)
           [] pk.mode = "CONNECTED" -> state_connected(pk, cx, pr, cmd)
           [] pk.mode = "POWER_SAVE" ->
                [pack |-> IF cmd.type \notin {"NULL", "NONE", "POWER_SAVE"}
                          THEN [pk EXCEPT !.mode = "READY"] ELSE pk,
                 ctx |-> cx, prot |-> pr]
           [] pk.mode = "FAULT" -> state_fault(pk, cx, pr, cmd)
           [] OTHER -> [pack |-> pk, ctx |-> cx, prot |-> pr]

(***************************************************************************)
(* Reference controller: src/c/corvus_bms.c                                *)
(* Its doubles are carried as integers: volts as mV, degrees C as 0.1 C,   *)
(* amperes as mA, seconds as ms, SoC as 1/10000.  The input levels used    *)
(* below lie on table breakpoints or on flat segments, so the integer      *)
(* interpolation is exact for them.                                        *)
(***************************************************************************)
BMS_SE_OVER_VOLTAGE_FAULT == 4225
BMS_SE_UNDER_VOLTAGE_FAULT == 3000
BMS_SE_OVER_TEMP_FAULT == 650
BMS_SE_OVER_VOLTAGE_WARNING == 4210
BMS_SE_UNDER_VOLTAGE_WARNING == 3200
BMS_SE_OVER_TEMP_WARNING == 600
BMS_SE_OV_WARN_CLEAR == 4190
BMS_SE_UV_WARN_CLEAR == 3220
BMS_SE_OT_WARN_CLEAR == 570
BMS_HW_SAFETY_OVER_VOLTAGE == 4300
BMS_HW_SAFETY_UNDER_VOLTAGE == 2700
BMS_HW_SAFETY_OVER_TEMP == 700
BMS_VOLTAGE_MATCH_PER_MODULE == 1200
BMS_NUM_MODULES == 22
BMS_CELLS_PER_MODULE == 14
BMS_NOMINAL_CAPACITY_AH == 128
BMS_PRECHARGE_DURATION == 5000
BMS_WARNING_HOLD_TIME == 10000
BMS_FAULT_RESET_HOLD_TIME == 60000
BMS_MAX_PACKS == 8
\* BMS_CURRENT_LIMIT_TOLERANCE is 0.01, carried as its reciprocal
BMS_CURRENT_LIMIT_TOLERANCE_DIV == 100

\* linterp: clamp x to the table, bracket it, interpolate
linterp(bp, val, x) ==
    LET n == Len(bp)
        xc == Max(bp[1], Min(bp[n], x))
        lo == CHOOSE k \in 1..(n - 1) :
                 /\ bp[k] <= xc
                 /\ \A j \in 1..(n - 1) : bp[j] <= xc => j <= k
        span == bp[lo + 1] - bp[lo]
    IN  IF span = 0 THEN val[lo]
        ELSE val[lo] + CDiv((val[lo + 1] - val[lo]) * (xc - bp[lo]), span)

\* C-rates are carried in 1/100 C
temp_charge_bp == <<-250, 0, 50, 150, 350, 450, 550, 650>>
temp_charge_cr == <<0, 0, 0, 300, 300, 200, 0, 0>>
temp_disch_bp == <<-250, -150, -100, -50, 0, 50, 100, 250, 300, 350, 450, 550, 600, 650, 700>>
temp_disch_cr == <<20, 20, 100, 150, 200, 450, 500, 500, 450, 400, 380, 380, 20, 20, 0>>
soc_charge_bp == <<0, 8500, 9000, 9500, 10000>>
soc_charge_cr == <<300, 300, 200, 100, 50>>
soc_disch_bp == <<0, 200, 500, 800, 1000, 1500, 2000, 5000, 10000>>
soc_disch_cr == <<100, 100, 220, 220, 400, 400, 500, 500, 500>>
sev_charge_bp == <<3000, 4100, 4200>>
sev_charge_cr == <<300, 300, 0>>
sev_disch_bp == <<3000, 3200, 3300, 3400, 3450, 3550, 4200>>
sev_disch_cr == <<0, 0, 200, 250, 380, 500, 500>>

\* A limit is [charge, discharge] in mA: C-rate (1/100 C) * cap (Ah) * 10
corvus_temp_current_limit(temp, cap) ==
    [charge |-> Max(0, linterp(temp_charge_bp, temp_charge_cr, temp) * cap * 10),
     discharge |-> Max(0, linterp(temp_disch_bp, temp_disch_cr, temp) * cap * 10)]

corvus_soc_current_limit(s, cap) ==
    [charge |-> Max(0, linterp(soc_charge_bp, soc_charge_cr, s) * cap * 10),
     discharge |-> Max(0, linterp(soc_disch_bp, soc_disch_cr, s) * cap * 10)]

corvus_sev_current_limit(cell_v, cap) ==
    [charge |-> Max(0, linterp(sev_charge_bp, sev_charge_cr, cell_v) * cap * 10),
     discharge |-> Max(0, linterp(sev_disch_bp, sev_disch_cr, cell_v) * cap * 10)]

\* max_d(0.0, timer - dt * BMS_FAULT_TIMER_DECAY_RATE)
ref_decay(timer, dt) == Max(0, timer - dt \div 2)

trigger_hw_fault(c) ==
    [c EXCEPT !.has_fault = TRUE, !.fault_latched = TRUE, !.hw_fault_latched = TRUE,
              !.contactors_closed = FALSE, !.mode = "FAULT",
              !.charge_current_limit = 0, !.discharge_current_limit = 0]

\* Variant: a software fault that leaves the contactors as they are
trigger_sw_fault_keeps_contactors(c) ==
    [c EXCEPT !.has_fault = TRUE, !.fault_latched = TRUE, !.mode = "FAULT",
              !.charge_current_limit = 0, !.discharge_current_limit = 0]

trigger_sw_fault(c) ==
    [c EXCEPT !.has_fault = TRUE, !.fault_latched = TRUE,
              !.contactors_closed = FALSE, !.mode = "FAULT",
              !.charge_current_limit = 0, !.discharge_current_limit = 0]

\* One hardware-safety timer of check_hw_safety: count up while asserted and
\* latch at its delay, otherwise decay
hw_timer(c, asserted, f, delay, dt) ==
    IF asserted
    THEN IF c[f] + dt >= delay
         THEN trigger_hw_fault([c EXCEPT ![f] = @ + dt])
         ELSE [c EXCEPT ![f] = @ + dt]
    ELSE [c EXCEPT ![f] = ref_decay(@, dt)]

check_hw_safety(c, dt) ==
    hw_timer(hw_timer(hw_timer(c, c.pack.cell_voltage >= BMS_HW_SAFETY_OVER_VOLTAGE,
                               "hw_ov_timer", 1000, dt),
                      c.pack.cell_voltage <= BMS_HW_SAFETY_UNDER_VOLTAGE,
                      "hw_uv_timer", 1000, dt),
             c.pack.temperature >= BMS_HW_SAFETY_OVER_TEMP, "hw_ot_timer", 5000, dt)

\* One SE fault timer of check_alarms: count up while asserted and latch at
\* 5 s unless already latched, otherwise decay
se_fault(c, asserted, f, dt) ==
    IF asserted
    THEN IF c[f] + dt >= 5000 /\ ~c.fault_latched
         THEN trigger_sw_fault([c EXCEPT ![f] = @ + dt])
         ELSE [c EXCEPT ![f] = @ + dt]
    ELSE [c EXCEPT ![f] = ref_decay(@, dt)]

\* One warning timer of check_alarms: count up while asserted, zero below the
\* clear level, hold in the deadband
se_warn(c, asserted, cleared, f, dt) ==
    IF asserted THEN [c EXCEPT ![f] = @ + dt]
    ELSE IF cleared THEN [c EXCEPT ![f] = 0]
    ELSE c

\* i > 1.05 * charge + 5.0 and i < -(1.05 * discharge - 5.0), times 100
oc_charge(c) ==
    100 * c.pack.current
       > 105 * corvus_temp_current_limit(c.pack.temperature, c.pack.capacity_ah).charge + 500000

oc_discharge(c) ==
    100 * c.pack.current
       < -(105 * corvus_temp_current_limit(c.pack.temperature, c.pack.capacity_ah).discharge
           - 500000)

\* check_alarms, warning timers
alarm_warn_timers(c, dt) ==
    se_warn(se_warn(se_warn(c, c.pack.cell_voltage >= BMS_SE_OVER_VOLTAGE_WARNING,
                            c.pack.cell_voltage < BMS_SE_OV_WARN_CLEAR, "ov_warn_timer", dt),
                    c.pack.cell_voltage <= BMS_SE_UNDER_VOLTAGE_WARNING,
                    c.pack.cell_voltage > BMS_SE_UV_WARN_CLEAR, "uv_warn_timer", dt),
            c.pack.temperature >= BMS_SE_OVER_TEMP_WARNING,
            c.pack.temperature < BMS_SE_OT_WARN_CLEAR, "ot_warn_timer", dt)

\* check_alarms, overcurrent warning timer
alarm_oc_warn_timer(c, dt) ==
    IF oc_charge(c) \/ oc_discharge(c)
    THEN [c EXCEPT !.oc_warn_timer = @ + dt]
    ELSE [c EXCEPT !.oc_warn_timer = ref_decay(@, dt)]

\* check_alarms, any_warn once the warning timers are updated
any_warn(c) ==
    \/ c.pack.cell_voltage >= BMS_SE_OVER_VOLTAGE_WARNING /\ c.ov_warn_timer >= 5000
    \/ c.pack.cell_voltage <= BMS_SE_UNDER_VOLTAGE_WARNING /\ c.uv_warn_timer >= 5000
    \/ c.pack.temperature >= BMS_SE_OVER_TEMP_WARNING /\ c.ot_warn_timer >= 5000
    \/ (oc_charge(c) \/ oc_discharge(c)) /\ c.oc_warn_timer >= 10000

\* check_alarms, warning state with hold time
alarm_warn_state(c, dt) ==
    IF any_warn(c)
    THEN [c EXCEPT !.has_warning = TRUE, !.warning_active_time = 0]
    ELSE IF c.has_warning
    THEN IF c.warning_active_time + dt >= BMS_WARNING_HOLD_TIME
         THEN [c EXCEPT !.has_warning = FALSE, !.warning_active_time = 0]
         ELSE [c EXCEPT !.warning_active_time = @ + dt]
    ELSE c

check_alarms(c, dt) ==
    se_fault(se_fault(se_fault(se_fault(
        alarm_warn_state(alarm_oc_warn_timer(alarm_warn_timers(c, dt), dt), dt),
        c.pack.temperature < 0 /\ oc_charge(c), "oc_fault_timer", dt),
        c.pack.cell_voltage >= BMS_SE_OVER_VOLTAGE_FAULT, "ov_fault_timer", dt),
        c.pack.cell_voltage <= BMS_SE_UNDER_VOLTAGE_FAULT, "uv_fault_timer", dt),
        c.pack.temperature >= BMS_SE_OVER_TEMP_FAULT, "ot_fault_timer", dt)

update_safe_state_timer(c, dt) ==
    LET v == c.pack.cell_voltage
        t == c.pack.temperature
    IN  IF /\ v < BMS_SE_OVER_VOLTAGE_FAULT /\ v > BMS_SE_UNDER_VOLTAGE_FAULT
           /\ t < BMS_SE_OVER_TEMP_FAULT /\ t < BMS_HW_SAFETY_OVER_TEMP
        THEN [c EXCEPT !.time_in_safe_state = @ + dt]
        ELSE [c EXCEPT !.time_in_safe_state = 0]

\* pack_update_voltage: pack voltage follows the cell voltage
pack_update_voltage(p) ==
    [p EXCEPT !.pack_voltage = p.cell_voltage * (p.num_modules * p.cells_per_module)]

\* corvus_pack_init followed by corvus_controller_init, for a pack whose
\* open-circuit cell voltage is cell_v
corvus_controller_init(s, temperature, cell_v) ==
    [pack |-> pack_update_voltage(
                  [num_modules |-> BMS_NUM_MODULES, cells_per_module |-> BMS_CELLS_PER_MODULE,
                   capacity_ah |-> BMS_NOMINAL_CAPACITY_AH, soc |-> s,
                   temperature |-> temperature, current |-> 0,
                   cell_voltage |-> cell_v, pack_voltage |-> 0]),
     mode |-> "READY", contactors_closed |-> FALSE,
     charge_current_limit |-> BMS_NOMINAL_CAPACITY_AH * 1000,
     discharge_current_limit |-> BMS_NOMINAL_CAPACITY_AH * 1000,
     has_warning |-> FALSE, has_fault |-> FALSE,
     fault_latched |-> FALSE, hw_fault_latched |-> FALSE,
     ov_fault_timer |-> 0, uv_fault_timer |-> 0, ot_fault_timer |-> 0,
     ov_warn_timer |-> 0, uv_warn_timer |-> 0, ot_warn_timer |-> 0,
     hw_ov_timer |-> 0, hw_uv_timer |-> 0, hw_ot_timer |-> 0,
     oc_fault_timer |-> 0, oc_warn_timer |-> 0,
     warning_active_time |-> 0, precharge_timer |-> 0, time_in_safe_state |-> 0]

\* fabs(pack_voltage - bus_voltage) > BMS_VOLTAGE_MATCH_PER_MODULE * num_modules
voltage_mismatch(c, bus_voltage) ==
    Abs(c.pack.pack_voltage - bus_voltage) > BMS_VOLTAGE_MATCH_PER_MODULE * c.pack.num_modules

\* Each call returns [ctrl, ret]
corvus_controller_request_connect(c, bus_voltage) ==
    IF c.mode # "READY" THEN [ctrl |-> c, ret |-> FALSE]
    ELSE IF voltage_mismatch(c, bus_voltage) THEN [ctrl |-> c, ret |-> FALSE]
    ELSE [ctrl |-> [c EXCEPT !.mode = "CONNECTING", !.precharge_timer = 0], ret |-> TRUE]

corvus_controller_complete_connection(c, bus_voltage) ==
    IF c.mode # "CONNECTING" THEN [ctrl |-> c, ret |-> FALSE]
    ELSE IF voltage_mismatch(c, bus_voltage)
    THEN [ctrl |-> [c EXCEPT !.mode = "READY"], ret |-> FALSE]
    ELSE [ctrl |-> [c EXCEPT !.mode = "CONNECTED", !.contactors_closed = TRUE], ret |-> TRUE]

corvus_controller_request_disconnect(c) ==
    IF c.mode \in {"CONNECTED", "CONNECTING"}
    THEN [c EXCEPT !.contactors_closed = FALSE, !.mode = "READY"]
    ELSE c

corvus_controller_manual_fault_reset(c) ==
    LET v == c.pack.cell_voltage
        t == c.pack.temperature
    IN  IF ~c.fault_latched THEN [ctrl |-> c, ret |-> TRUE]
        ELSE IF ~(/\ v < BMS_SE_OVER_VOLTAGE_FAULT /\ v > BMS_SE_UNDER_VOLTAGE_FAULT
                  /\ t < BMS_SE_OVER_TEMP_FAULT)
        THEN [ctrl |-> [c EXCEPT !.time_in_safe_state = 0], ret |-> FALSE]
        ELSE IF c.time_in_safe_state < BMS_FAULT_RESET_HOLD_TIME
        THEN [ctrl |-> c, ret |-> FALSE]
        ELSE [ctrl |-> [c EXCEPT !.fault_latched = FALSE, !.hw_fault_latched = FALSE,
                                 !.has_fault = FALSE, !.mode = "READY",
                                 !.ov_fault_timer = 0, !.uv_fault_timer = 0,
                                 !.ot_fault_timer = 0, !.hw_ov_timer = 0,
                                 !.hw_uv_timer = 0, !.hw_ot_timer = 0,
                                 !.oc_fault_timer = 0, !.oc_warn_timer = 0,
                                 !.time_in_safe_state = 0],
              ret |-> TRUE]

\* corvus_controller_step after the three checks: latched return, pre-charge
\* timer, current limits
controller_precharge(c, dt, bus_voltage) ==
    IF c.mode = "CONNECTING"
    THEN IF c.precharge_timer + dt >= BMS_PRECHARGE_DURATION
         THEN corvus_controller_complete_connection(
                  [c EXCEPT !.precharge_timer = @ + dt], bus_voltage).ctrl
         ELSE [c EXCEPT !.precharge_timer = @ + dt]
    ELSE c

controller_limits(c) ==
    [c EXCEPT
       !.charge_current_limit =
           Max(0, Min(corvus_temp_current_limit(c.pack.temperature, c.pack.capacity_ah).charge,
                  Min(corvus_soc_current_limit(c.pack.soc, c.pack.capacity_ah).charge,
                      corvus_sev_current_limit(c.pack.cell_voltage, c.pack.capacity_ah).charge))),
       !.discharge_current_limit =
           Max(0, Min(corvus_temp_current_limit(c.pack.temperature, c.pack.capacity_ah).discharge,
                  Min(corvus_soc_current_limit(c.pack.soc, c.pack.capacity_ah).discharge,
                      corvus_sev_current_limit(c.pack.cell_voltage,
                                               c.pack.capacity_ah).discharge)))]

controller_after_checks(c, dt, bus_voltage) ==
    IF c.fault_latched
    THEN [c EXCEPT !.charge_current_limit = 0, !.discharge_current_limit = 0]
    ELSE controller_limits(controller_precharge(c, dt, bus_voltage))

corvus_controller_step(c, dt, bus_voltage) ==
    controller_after_checks(
        update_safe_state_timer(check_alarms(check_hw_safety(c, dt), dt), dt),
        dt, bus_voltage)

(***************************************************************************)
(* Reference array: src/c/corvus_bms.c                                     *)
(* Pack electrical model.  Module resistance is carried in 1/10 mOhm and   *)
(* the cell open-circuit voltage in mV.  A solved current is an exact      *)
(* fraction [n, d] of mA with d > 0, so that the solver's comparisons and  *)
(* sums are those of the real numbers its doubles stand for.               *)
(***************************************************************************)
r_temps == <<-100, 0, 100, 250, 350, 450>>
r_socs == <<500, 2000, 3500, 5000, 6500, 8000, 9500>>
r_table ==
    << <<153, 97, 62, 50, 44, 41>>,
       <<109, 72, 47, 36, 33, 31>>,
       << 99, 66, 43, 33, 30, 28>>,
       << 93, 62, 40, 31, 28, 26>>,
       << 96, 64, 42, 32, 29, 27>>,
       <<102, 68, 44, 34, 31, 29>>,
       <<135, 89, 56, 42, 39, 36>> >>

\* the downward search for the bracketing breakpoint, falling back to the first
RECURSIVE bracket(_, _, _)
bracket(bp, i, x) ==
    IF i < 1 THEN 1 ELSE IF bp[i] <= x THEN i ELSE bracket(bp, i - 1, x)

bilinear_interp(temp, s) ==
    LET t == Max(r_temps[1], Min(r_temps[Len(r_temps)], temp))
        sc == Max(r_socs[1], Min(r_socs[Len(r_socs)], s))
        ti == bracket(r_temps, Len(r_temps) - 1, t)
        si == bracket(r_socs, Len(r_socs) - 1, sc)
        t_num == t - r_temps[ti]
        t_den == r_temps[ti + 1] - r_temps[ti]
        s_num == sc - r_socs[si]
        s_den == r_socs[si + 1] - r_socs[si]
        r0 == r_table[si][ti] + CDiv((r_table[si][ti + 1] - r_table[si][ti]) * t_num, t_den)
        r1 == r_table[si + 1][ti]
                + CDiv((r_table[si + 1][ti + 1] - r_table[si + 1][ti]) * t_num, t_den)
    IN  r0 + CDiv((r1 - r0) * s_num, s_den)

corvus_ocv_soc_bp ==
    <<0, 200, 500, 800, 1000, 1500, 2000, 2500, 3000, 3500, 4000, 4500,
      5000, 5500, 6000, 6500, 7000, 7500, 8000, 8500, 9000, 9500, 9800, 10000>>
corvus_ocv_val_bp ==
    <<3000, 3280, 3420, 3480, 3510, 3555, 3590, 3610, 3625, 3638, 3650, 3662,
      3675, 3690, 3710, 3735, 3765, 3800, 3845, 3900, 3960, 4030, 4100, 4190>>

corvus_ocv_from_soc(s) == linterp(corvus_ocv_soc_bp, corvus_ocv_val_bp, Max(0, Min(10000, s)))

RECURSIVE Gcd(_, _)
Gcd(a, b) == IF b = 0 THEN a ELSE Gcd(b, a % b)
Lcm(a, b) == (a \div Gcd(a, b)) * b
RECURSIVE LcmOf(_, _)
LcmOf(f, i) == IF i = 0 THEN 1 ELSE Lcm(f[i], LcmOf(f, i - 1))
RECURSIVE SumOver(_, _)
SumOver(f, i) == IF i = 0 THEN 0 ELSE f[i] + SumOver(f, i - 1)

\* Exact floor of a * n / d for 0 <= n, 0 < d, without forming a * n
ScaleDiv(a, n, d) == a * (n \div d) + ((a * (n % d)) \div d)

(***************************************************************************)
(* The electrical side of the connected packs.  conn is the sequence of    *)
(* connected controllers.  For pack k with module resistance r_k and cell  *)
(* voltage o_k,                                                            *)
(*    i_k = (v_bus - ocv_k) / r_pack_k                                     *)
(*        = (cells per module) * 10^4 * (v_cell - o_k) / r_k   in mA,      *)
(* because the pack's 22 modules cancel between voltage and resistance.    *)
(* With g_k = L / r_k for L the common multiple of the r's, G the sum of   *)
(* the active g's and S_k the sum of g_j * (o_j - o_k) over the active j,  *)
(*    v_cell - o_k = (K * S_k + L * residual) / (K * G)                    *)
(*    i_k          = g_k * (K * S_k + L * residual) / (L * G)              *)
(* where K / L is reduced to lowest terms.                                 *)
(***************************************************************************)
\* a function over 1..n as a tuple of its values
RECURSIVE TupleOf(_, _)
TupleOf(f, n) == IF n = 0 THEN <<>> ELSE Append(TupleOf(f, n - 1), f[n])

SolveK == BMS_CELLS_PER_MODULE * 10000
electrics_of(r, ocv, L) ==
    [r |-> r, ocv |-> ocv,
     g |-> TupleOf([k \in 1..Len(r) |-> L \div r[k]], Len(r)),
     Kn |-> SolveK \div Gcd(SolveK, L),
     Ln |-> L \div Gcd(SolveK, L)]
electrics_r(r, ocv) == electrics_of(r, ocv, LcmOf(r, Len(r)))
electrics(conn) ==
    electrics_r(TupleOf([k \in 1..Len(conn) |->
                            bilinear_interp(conn[k].pack.temperature, conn[k].pack.soc)],
                        Len(conn)),
                TupleOf([k \in 1..Len(conn) |-> corvus_ocv_from_soc(conn[k].pack.soc)],
                        Len(conn)))

\* sum_g and the numerator of (v_bus - ocv_k) * sum_g over the active packs
sum_g(el, active) ==
    SumOver([k \in 1..Len(el.g) |-> IF active[k] THEN el.g[k] ELSE 0], Len(el.g))
drive(el, active, residual, k) ==
    el.Kn * SumOver([j \in 1..Len(el.g) |->
                        IF active[j] THEN el.g[j] * (el.ocv[j] - el.ocv[k]) ELSE 0], Len(el.g))
      + el.Ln * residual
\* i_k as a fraction
pack_i(el, active, residual, k) ==
    [n |-> el.g[k] * drive(el, active, residual, k), d |-> el.Ln * sum_g(el, active)]
\* v_bus in mV, rounded to a whole mV
solved_bus_mv(el, active, residual) ==
    LET k == CHOOSE j \in 1..Len(el.g) : active[j] /\ \A m \in 1..Len(el.g) : active[m] => j <= m
        num == drive(el, active, residual, k)
        den == el.Kn * sum_g(el, active)
        cells == BMS_NUM_MODULES * BMS_CELLS_PER_MODULE
    IN  cells * el.ocv[k]
          + (IF num >= 0 THEN ScaleDiv(cells, num, den) ELSE -ScaleDiv(cells, -num, den))

\* comparisons and sums of fractions with positive denominators
FracGt(a, lim) == a.n > lim * a.d
FracLt(a, lim) == a.n < lim * a.d
FracInt(v) == [n |-> v, d |-> 1]

\* pack_currents[i] > limit * (1 + BMS_CURRENT_LIMIT_TOLERANCE), for limit >= 0
FracGtTol(a, lim) == a.n - lim * a.d > (lim * a.d) \div BMS_CURRENT_LIMIT_TOLERANCE_DIV
FracNeg(a) == [n |-> -a.n, d |-> a.d]

\* Variant: the target enters the solver without the array envelope applied
solve_begin_raw_target(array, conn, target_current, is_equalization) ==
    LET actual_total == IF is_equalization THEN 0 ELSE target_current
    IN  [active |-> TupleOf([k \in 1..Len(conn) |-> TRUE], Len(conn)),
         clamped_val |-> TupleOf([k \in 1..Len(conn) |-> 0], Len(conn)),
         is_clamped |-> TupleOf([k \in 1..Len(conn) |-> FALSE], Len(conn)),
         actual_total |-> actual_total,
         residual |-> actual_total,
         iteration |-> 0,
         pack_currents |-> TupleOf([k \in 1..Len(conn) |-> FracInt(0)], Len(conn)),
         bus_voltage |-> array.bus_voltage,
         exit |-> "loop"]

\* solve_currents, entry: the target clamped to the array envelope, all packs active
solve_begin(array, conn, target_current, is_equalization) ==
    LET actual_total ==
            IF is_equalization THEN 0
            ELSE IF target_current > 0 THEN Min(target_current, array.array_charge_limit)
            ELSE IF target_current < 0 THEN Max(target_current, -array.array_discharge_limit)
            ELSE 0
    IN  [active |-> TupleOf([k \in 1..Len(conn) |-> TRUE], Len(conn)),
         clamped_val |-> TupleOf([k \in 1..Len(conn) |-> 0], Len(conn)),
         is_clamped |-> TupleOf([k \in 1..Len(conn) |-> FALSE], Len(conn)),
         actual_total |-> actual_total,
         residual |-> actual_total,
         iteration |-> 0,
         pack_currents |-> TupleOf([k \in 1..Len(conn) |-> FracInt(0)], Len(conn)),
         bus_voltage |-> array.bus_voltage,
         exit |-> "loop"]

clamped_sum(s) ==
    SumOver([k \in 1..Len(s.active) |-> IF s.is_clamped[k] THEN s.clamped_val[k] ELSE 0],
            Len(s.active))

\* the current that enters v_bus next to the open-circuit terms
solve_residual(s, is_equalization) == IF is_equalization THEN -clamped_sum(s) ELSE s.residual

\* the code after the loop: "final solve with remaining active"
final_solve(s, how, el, unclamped, res) ==
    LET n == Len(s.active)
    IN  IF (\E k \in 1..n : unclamped[k]) /\ sum_g(el, unclamped) > 0
        THEN [s EXCEPT !.pack_currents =
                          TupleOf([k \in 1..n |->
                                      IF s.is_clamped[k] THEN FracInt(s.clamped_val[k])
                                      ELSE pack_i(el, unclamped, res, k)], n),
                       !.bus_voltage = solved_bus_mv(el, unclamped, res),
                       !.exit = how]
        ELSE IF ~\E k \in 1..n : unclamped[k]
        THEN [s EXCEPT !.pack_currents = TupleOf([k \in 1..n |-> FracInt(s.clamped_val[k])], n),
                       !.bus_voltage =
                           CDiv(SumOver([k \in 1..n |->
                                    BMS_NUM_MODULES * BMS_CELLS_PER_MODULE * el.ocv[k]
                                      + CDiv(s.clamped_val[k] * el.r[k] * BMS_NUM_MODULES,
                                             10000)], n), n),
                       !.exit = how]
        ELSE [s EXCEPT !.pack_currents =
                          TupleOf([k \in 1..n |->
                                      IF s.is_clamped[k] THEN FracInt(s.clamped_val[k])
                                      ELSE s.pack_currents[k]], n),
                       !.exit = how]

solve_final(conn, s, is_equalization, how) ==
    final_solve(s, how, electrics(conn),
                TupleOf([k \in 1..Len(conn) |-> ~s.is_clamped[k]], Len(conn)),
                solve_residual(s, is_equalization))

\* One pass of the clamping loop, for s.exit = "loop", in the order of the code:
\* the currents of the active packs at this pass's v_bus
pass_currents(el, s, res) ==
    TupleOf([k \in 1..Len(s.active) |-> IF s.active[k] THEN pack_i(el, s.active, res, k)
                                        ELSE FracInt(0)], Len(s.active))

\* Variant: only the charge limit is tested in the per-pack loop
pass_clamps_charge_only(conn, s, i) ==
    TupleOf([k \in 1..Len(conn) |->
                IF s.active[k] /\ i[k].n > 0 /\ FracGt(i[k], conn[k].charge_current_limit)
                THEN "charge"
                ELSE "none"], Len(conn))

\* which limit, if any, each active pack's current exceeds
pass_clamps(conn, s, i) ==
    TupleOf([k \in 1..Len(conn) |->
                IF s.active[k] /\ i[k].n > 0 /\ FracGt(i[k], conn[k].charge_current_limit)
                THEN "charge"
                ELSE IF /\ s.active[k] /\ i[k].n < 0
                        /\ FracGt(FracNeg(i[k]), conn[k].discharge_current_limit)
                THEN "discharge"
                ELSE "none"], Len(conn))

\* Variant: a clamped pack stays in the active set
pass_apply_keeps_active(conn, s, is_equalization, i, clamp) ==
    LET n == Len(conn)
        val(k) == IF clamp[k] = "charge" THEN conn[k].charge_current_limit
                  ELSE -conn[k].discharge_current_limit
    IN  [s EXCEPT
           !.clamped_val = TupleOf([k \in 1..n |-> IF clamp[k] # "none" THEN val(k)
                                                   ELSE s.clamped_val[k]], n),
           !.is_clamped = TupleOf([k \in 1..n |-> s.is_clamped[k] \/ clamp[k] # "none"], n),
           !.residual =
               IF is_equalization THEN s.residual
               ELSE s.residual
                      - SumOver([k \in 1..n |-> IF clamp[k] # "none" THEN val(k) ELSE 0], n),
           !.pack_currents = TupleOf([k \in 1..n |-> IF s.active[k] /\ clamp[k] = "none"
                                                     THEN i[k] ELSE s.pack_currents[k]], n)]

\* the locals after the per-pack loop
pass_apply(conn, s, is_equalization, i, clamp) ==
    LET n == Len(conn)
        val(k) == IF clamp[k] = "charge" THEN conn[k].charge_current_limit
                  ELSE -conn[k].discharge_current_limit
    IN  [s EXCEPT
           !.clamped_val = TupleOf([k \in 1..n |-> IF clamp[k] # "none" THEN val(k)
                                                   ELSE s.clamped_val[k]], n),
           !.is_clamped = TupleOf([k \in 1..n |-> s.is_clamped[k] \/ clamp[k] # "none"], n),
           !.active = TupleOf([k \in 1..n |-> s.active[k] /\ clamp[k] = "none"], n),
           !.residual =
               IF is_equalization THEN s.residual
               ELSE s.residual
                      - SumOver([k \in 1..n |-> IF clamp[k] # "none" THEN val(k) ELSE 0], n),
           !.pack_currents = TupleOf([k \in 1..n |-> IF s.active[k] /\ clamp[k] = "none"
                                                     THEN i[k] ELSE s.pack_currents[k]], n)]

\* the accepted solution: clamped values copied in
pass_merged(t) ==
    TupleOf([k \in 1..Len(t.active) |-> IF t.is_clamped[k] THEN FracInt(t.clamped_val[k])
                                        ELSE t.pack_currents[k]], Len(t.active))

\* the post-solve clamp of Kirchhoff mode
post_solve_clamp(conn, merged) ==
    TupleOf([k \in 1..Len(conn) |->
                IF merged[k].n > 0 /\ FracGtTol(merged[k], conn[k].charge_current_limit)
                THEN FracInt(conn[k].charge_current_limit)
                ELSE IF /\ merged[k].n < 0
                        /\ FracGtTol(FracNeg(merged[k]), conn[k].discharge_current_limit)
                THEN FracInt(-conn[k].discharge_current_limit)
                ELSE merged[k]], Len(conn))

pass_finish(conn, s, is_equalization, el, res, t) ==
    IF t.is_clamped = s.is_clamped
    THEN [t EXCEPT !.bus_voltage = solved_bus_mv(el, s.active, res),
                   !.pack_currents = IF is_equalization THEN pass_merged(t)
                                     ELSE post_solve_clamp(conn, pass_merged(t)),
                   !.exit = "accepted"]
    ELSE IF s.iteration + 1 < Len(conn)
    THEN [t EXCEPT !.iteration = s.iteration + 1]
    ELSE solve_final(conn, [t EXCEPT !.iteration = s.iteration + 1],
                     is_equalization, "exhausted")

pass_clamped(conn, s, is_equalization, el, res, i) ==
    pass_finish(conn, s, is_equalization, el, res,
                pass_apply(conn, s, is_equalization, i, pass_clamps(conn, s, i)))

pass_solved(conn, s, is_equalization, el, res) ==
    IF sum_g(el, s.active) = 0
    THEN solve_final(conn, s, is_equalization, "break")
    ELSE pass_clamped(conn, s, is_equalization, el, res, pass_currents(el, s, res))

solve_iteration(conn, s, is_equalization) ==
    pass_solved(conn, s, is_equalization, electrics(conn), solve_residual(s, is_equalization))

RECURSIVE solve_loop(_, _, _)
solve_loop(conn, s, is_equalization) ==
    IF s.exit # "loop" THEN s
    ELSE solve_loop(conn, solve_iteration(conn, s, is_equalization), is_equalization)

solve_currents(array, conn, target_current, is_equalization) ==
    solve_loop(conn, solve_begin(array, conn, target_current, is_equalization), is_equalization)

\* The array is [controllers, num_packs, bus_voltage, array_charge_limit,
\* array_discharge_limit]; a controller of an array carries pack.pack_id
corvus_validate_unique_pack_ids(pack_ids, n) ==
    \A i \in 1..n : \A j \in 1..n : i # j => pack_ids[i] # pack_ids[j]

array_controller_init(pack_id, s, temperature) ==
    LET c == corvus_controller_init(s, temperature, corvus_ocv_from_soc(s))
    IN  [c EXCEPT !.pack = c.pack @@ [pack_id |-> pack_id]]

\* Duplicate ids are reported on stderr and the array is initialised all the same
corvus_array_init(pack_ids, socs, temperatures) ==
    LET n == Min(Len(pack_ids), BMS_MAX_PACKS)
    IN  IF Len(pack_ids) <= 0
        THEN [controllers |-> <<>>, num_packs |-> 0, bus_voltage |-> 0,
              array_charge_limit |-> 0, array_discharge_limit |-> 0]
        ELSE [controllers |-> [i \in 1..n |->
                                  array_controller_init(pack_ids[i], socs[i], temperatures[i])],
              num_packs |-> n, bus_voltage |-> 0,
              array_charge_limit |-> 0, array_discharge_limit |-> 0]

InMode(array, m) == {i \in 1..array.num_packs : array.controllers[i].mode = m}

corvus_array_update_bus_voltage(array) ==
    LET volts(S) == SumOver([i \in 1..array.num_packs |->
                                IF i \in S THEN array.controllers[i].pack.pack_voltage ELSE 0],
                            array.num_packs)
        conn == InMode(array, "CONNECTED")
        ready == InMode(array, "READY")
    IN  IF conn # {} THEN [array EXCEPT !.bus_voltage = CDiv(volts(conn), Cardinality(conn))]
        ELSE IF ready # {}
        THEN [array EXCEPT !.bus_voltage = CDiv(volts(ready), Cardinality(ready))]
        ELSE array

corvus_array_compute_limits(array) ==
    LET conn == InMode(array, "CONNECTED")
        n == Cardinality(conn)
    IN  IF n = 0
        THEN [array EXCEPT !.array_charge_limit = 0, !.array_discharge_limit = 0]
        ELSE [array EXCEPT
                !.array_charge_limit =
                    SetMin({array.controllers[i].charge_current_limit : i \in conn}) * n,
                !.array_discharge_limit =
                    SetMin({array.controllers[i].discharge_current_limit : i \in conn}) * n]

\* conn_idx: the indices of the CONNECTED packs in ascending order
RECURSIVE conn_idx_from(_, _)
conn_idx_from(array, i) ==
    IF i > array.num_packs THEN <<>>
    ELSE IF array.controllers[i].mode = "CONNECTED"
    THEN <<i>> \o conn_idx_from(array, i + 1)
    ELSE conn_idx_from(array, i + 1)
conn_idx(array) == conn_idx_from(array, 1)
connected(array) ==
    TupleOf([j \in 1..Len(conn_idx(array)) |-> array.controllers[conn_idx(array)[j]]],
            Len(conn_idx(array)))

\* Each connect call returns the array and the indices it issued a connect
\* request to, in order
any_in(array, modes) == \E i \in 1..array.num_packs : array.controllers[i].mode \in modes

\* Variant: the first READY pack is taken whatever its SoC
RECURSIVE best_ready_first(_, _, _, _)
best_ready_first(array, for_charge, i, best) ==
    IF i > array.num_packs THEN best
    ELSE IF array.controllers[i].mode # "READY"
    THEN best_ready_first(array, for_charge, i + 1, best)
    ELSE IF best = 0 THEN best_ready_first(array, for_charge, i + 1, i)
    ELSE best_ready_first(array, for_charge, i + 1, best)

\* the scan for the best READY pack: the first one, replaced by a later one
\* only on a strictly lower (charge) or strictly higher (discharge) SoC
RECURSIVE best_ready(_, _, _, _)
best_ready(array, for_charge, i, best) ==
    IF i > array.num_packs THEN best
    ELSE IF array.controllers[i].mode # "READY" THEN best_ready(array, for_charge, i + 1, best)
    ELSE IF best = 0 THEN best_ready(array, for_charge, i + 1, i)
    ELSE IF for_charge /\ array.controllers[i].pack.soc < array.controllers[best].pack.soc
    THEN best_ready(array, for_charge, i + 1, i)
    ELSE IF ~for_charge /\ array.controllers[i].pack.soc > array.controllers[best].pack.soc
    THEN best_ready(array, for_charge, i + 1, i)
    ELSE best_ready(array, for_charge, i + 1, best)

connect_pack(array, i) ==
    [array EXCEPT !.controllers[i] =
        corvus_controller_request_connect(array.controllers[i], array.bus_voltage).ctrl]

connect_best(array, best) ==
    IF best = 0 THEN [array |-> array, requested |-> <<>>]
    ELSE [array |-> connect_pack(array, best), requested |-> <<best>>]

corvus_array_connect_first(array, for_charge) ==
    IF any_in(array, {"CONNECTED", "CONNECTING"}) THEN [array |-> array, requested |-> <<>>]
    ELSE connect_best(array, best_ready(array, for_charge, 1, 0))

RECURSIVE connect_ready_from(_, _, _)
connect_ready_from(array, i, requested) ==
    IF i > array.num_packs THEN [array |-> array, requested |-> requested]
    ELSE IF array.controllers[i].mode = "READY"
    THEN connect_ready_from(connect_pack(array, i), i + 1, Append(requested, i))
    ELSE connect_ready_from(array, i + 1, requested)

corvus_array_connect_remaining(array, for_charge) ==
    IF ~any_in(array, {"CONNECTED"}) THEN [array |-> array, requested |-> <<>>]
    ELSE connect_ready_from(array, 1, <<>>)

corvus_array_disconnect_all(array) ==
    [array EXCEPT !.controllers =
        TupleOf([i \in 1..array.num_packs |->
                    corvus_controller_request_disconnect(array.controllers[i])],
                array.num_packs)]

corvus_array_reset_all_faults(array) ==
    [array EXCEPT !.controllers =
        TupleOf([i \in 1..array.num_packs |->
                    IF array.controllers[i].fault_latched
                    THEN corvus_controller_manual_fault_reset(array.controllers[i]).ctrl
                    ELSE array.controllers[i]],
                array.num_packs)]

\* corvus_pack_step: nothing for dt <= 0; otherwise the pack carries the
\* commanded current if its contactors are closed and none if they are open.
\* The step's integration of SoC and temperature and the voltage it derives
\* from them are left to the harness, which holds a pack at its levels.
corvus_pack_step(p, dt, current, contactors_closed) ==
    IF dt <= 0 THEN p
    ELSE [p EXCEPT !.current = IF contactors_closed THEN current ELSE 0]

\* a solved current in whole mA
FracRound(a) == CDiv(a.n, a.d)

\* corvus_array_step returns the array and, per pack, the current its
\* corvus_pack_step call was given
step_controllers(array, dt) ==
    [array EXCEPT !.controllers =
        TupleOf([i \in 1..array.num_packs |->
                    corvus_controller_step(array.controllers[i], dt, array.bus_voltage)],
                array.num_packs)]

\* the commanded currents: the solver's for the connected packs, 0.0 for the rest
step_commanded(array, idx, s) ==
    TupleOf([i \in 1..array.num_packs |->
                IF \E j \in 1..Len(idx) : idx[j] = i
                THEN FracRound(s.pack_currents[CHOOSE j \in 1..Len(idx) : idx[j] = i])
                ELSE 0],
            array.num_packs)

step_packs(array, dt, commanded) ==
    [array |->
        corvus_array_compute_limits(
            [array EXCEPT !.controllers =
                TupleOf([i \in 1..array.num_packs |->
                            [array.controllers[i] EXCEPT
                                !.pack = corvus_pack_step(@, dt, commanded[i],
                                                          array.controllers[i].contactors_closed)]],
                        array.num_packs)]),
     commanded |-> commanded]

step_solved(array, dt, idx, s) ==
    step_packs([array EXCEPT !.bus_voltage = s.bus_voltage], dt, step_commanded(array, idx, s))

step_solve(array, dt, requested_current) ==
    IF Len(conn_idx(array)) > 0
    THEN step_solved(corvus_array_compute_limits(array), dt, conn_idx(array),
                     solve_currents(corvus_array_compute_limits(array),
                                    connected(array), requested_current,
                                    requested_current = 0))
    ELSE step_packs(corvus_array_update_bus_voltage(array), dt,
                    TupleOf([i \in 1..array.num_packs |-> 0], array.num_packs))

\* Variant: the currents are solved and applied before the controllers are stepped
corvus_array_step_solve_first(array, dt, requested_current) ==
    [array |-> corvus_array_compute_limits(
                   step_controllers(step_solve(array, dt, requested_current).array, dt)),
     commanded |-> step_solve(array, dt, requested_current).commanded]

corvus_array_step(array, dt, requested_current) ==
    step_solve(step_controllers(array, dt), dt, requested_current)

(***************************************************************************)
(* Firmware state                                                          *)
(***************************************************************************)
VARIABLES
    pack,            \* bms_pack_data_t g_pack
    prot,            \* bms_protection_state_t g_prot
    ctx,             \* bms_contactor_ctx_t g_contactor
    gpio,            \* contactor outputs written through hal_gpio_write
    scan,            \* bms_monitor.c statics
    soc,             \* bms_soc.c statics
    bal,             \* bms_balance.c state
    s_last_ems_cmd,  \* bms_tasks.c: last command received by task_can_rx
    hal,             \* hardware inputs read through the HAL
    scenario,        \* [build, axis]: which harness runs and which inputs vary
    ran,             \* subsystems that have run in the current tick
    nev,             \* number of harness events (input changes, commands) so far
    ctrl,            \* reference controller corvus_controller_t
    rin              \* reference controller inputs and call history; in SpecOsc the
                     \* oscillation driver [phase, elapsed, cycles, high, low, dt]

fwvars == <<pack, prot, ctx, gpio, scan, soc, bal, s_last_ems_cmd, hal, scenario, ran, nev>>
refvars == <<ctrl, rin>>
vars == <<pack, prot, ctx, gpio, scan, soc, bal, s_last_ems_cmd, hal, scenario, ran, nev,
          ctrl, rin>>

(***************************************************************************)
(* Input levels and bounds of the firmware model                           *)
(***************************************************************************)
NominalCellMv == 3675
NominalTempDeciC == 250
OvLevels == {NominalCellMv, BMS_SE_OV_FAULT_MV, BMS_HW_OV_MV}
UvLevels == {NominalCellMv, BMS_SE_UV_FAULT_MV, BMS_HW_UV_MV}
ColdTempDeciC == -100
TempLevels == {NominalTempDeciC, BMS_SE_OT_FAULT_DECI_C, BMS_HW_OT_DECI_C}
WeldCurrentMa == 3000
WarnCurrentMa == 6000
CurrentLevels == {0, WeldCurrentMa, WarnCurrentMa, -(BMS_MAX_DISCHARGE_MA + WeldCurrentMa)}
\* dt_ms passed to bms_protection_run: a short and a long elapsed time
ProtDtShort == 2500
ProtDtLong == 30000
ProtDts == {ProtDtShort, ProtDtLong}
\* dt_ms passed to bms_contactor_run: its period and a long elapsed time
BMS_CONTACTOR_PERIOD_MS == 50
ContDtLong == 5000
ContDts == {BMS_CONTACTOR_PERIOD_MS, ContDtLong}
\* protection runs are explored while the timers stay within these caps
FaultTimerCap == 7500
SafeStateCap == 90000
\* monitor runs are explored up to this many completed scans
MaxScans == 3
\* the command axis runs one scan more: a connect takes three runs of the
\* loop, and a command to a connected pack needs the run after them
ScansOf(axis) == IF axis = "cmd" THEN MaxScans + 1 ELSE MaxScans
\* the demo harness advances uptime by its own step, up to a cap
HarnessDt == 3000
UptimeCap == 7600
\* the HAL tick may lead the monitor's uptime count by this much
TickLead == 20
\* at most this many input changes and this many EMS commands per run
MaxInputs == 2
MaxCommands == 3

Builds == {"loop", "rtos"}
Axes == {"ov", "uv", "temp", "curr", "afe", "ems", "cmd"}
Subsystems == {"monitor", "protection", "contactor", "state"}

\* how far a DC bus held by other packs lies above the pack voltage
BusMismatchMv == 30000

\* The plant starts at rest at nominal voltage; in scenario "curr" it is cold.
\* adc_bus_mv is the DC-bus voltage on the ADC_BUS_VOLTAGE sense input: that
\* of the pack, or in scenario "cmd" that of a bus held higher by other packs
HalInit(axis) ==
    [adc_bus_mv |-> NumModules * NominalCellMv
                    + (IF axis = "cmd" THEN BusMismatchMv ELSE 0),
     cell_mv |-> [i \in Cells |-> NominalCellMv],
     temp_raw |-> [s \in Sensors |->
                    (IF axis = "curr" THEN ColdTempDeciC ELSE NominalTempDeciC)
                    + KELVIN_OFFSET],
     ssa_ov |-> [m \in Modules |-> FALSE], ssa_uv |-> [m \in Modules |-> FALSE],
     ssa_sc |-> [m \in Modules |-> FALSE], ssb_ot |-> [m \in Modules |-> FALSE],
     i2c_fail |-> FALSE, fb |-> TRUE]

\* main.c: static storage is zero, then the init functions run
PackInit ==
    [cell_mv |-> [i \in Cells |-> 0], temp_deci_c |-> [s \in Sensors |-> 0],
     comm_ok |-> [m \in Modules |-> FALSE],
     max_cell_mv |-> 0, min_cell_mv |-> 65535, avg_cell_mv |-> 0,
     pack_voltage_mv |-> 0, max_temp_deci_c |-> -400, min_temp_deci_c |-> 7000,
     soc_hundredths |-> 5000, pack_current_ma |-> 0,
     charge_limit_ma |-> 0, discharge_limit_ma |-> 0,
     mode |-> "NOT_READY", contactor_state |-> "OPEN",
     faults |-> NoFaults, fault_latched |-> FALSE, has_warning |-> FALSE,
     uptime_ms |-> 0, last_ems_msg_ms |-> 0]

\* History kept for the unit harness: for each fault condition, the total time
\* it has been asserted over the protection runs so far (counted up to
\* AssertedCap)
FaultKinds == {"hw_ov", "hw_uv", "hw_ot", "ov", "uv", "ot", "oc_charge", "oc_discharge"}
AssertedCap == 5000
AssertedZero == [k \in FaultKinds |-> 0]

\* Everything of the firmware but the pack data
\* No set_limits command has been given to the connected pack
EmsNone == [set |-> FALSE, charge |-> 0, discharge |-> 0]

FwRest ==
    /\ prot = ProtZero
    /\ ctx = ContactorInit
    /\ gpio = all_contactors_off
    /\ scan = [s_current_module |-> 1, s_scan_complete |-> FALSE, s_scan_count |-> 0]
    /\ soc = [s_soc_hundredths |-> 5000, s_low_current_ms |-> 0]
    /\ bal = BalanceOff
    /\ s_last_ems_cmd = [NullCmd EXCEPT !.type = "NONE"]
    /\ ran = {}
    /\ nev = [inputs |-> 0, cmds |-> 0, asserted |-> AssertedZero, ems |-> EmsNone]

FwInit ==
    /\ pack = PackInit
    /\ FwRest

\* Tick bookkeeping: a tick ends when all four subsystems have run
Ran(sub) == IF ran \cup {sub} = Subsystems THEN {} ELSE ran \cup {sub}
\* The cooperative loop of main.c calls the subsystems in a fixed order; the
\* tasks of bms_tasks.c run once per tick each, in any order
Turn(sub) ==
    IF scenario.build = "loop"
    THEN ran = CASE sub = "monitor" -> {}
                 [] sub = "protection" -> {"monitor"}
                 [] sub = "contactor" -> {"monitor", "protection"}
                 [] OTHER -> {"monitor", "protection", "contactor"}
    ELSE sub \notin ran

\* The harness acts between loop iterations, or at any time under the RTOS
HarnessTurn == scenario.build = "loop" => ran = {}
InputEvent == nev.inputs < MaxInputs /\ nev' = [nev EXCEPT !.inputs = @ + 1]
CommandEvent == nev.cmds < MaxCommands /\ nev' = [nev EXCEPT !.cmds = @ + 1]

(***************************************************************************)
(* Firmware actions                                                        *)
(***************************************************************************)
TimersWithinCap(pr) ==
    /\ \A i \in Cells : pr.ov_timer_ms[i] <= FaultTimerCap /\ pr.uv_timer_ms[i] <= FaultTimerCap
    /\ \A x \in Sensors : pr.ot_timer_ms[x] <= FaultTimerCap
    /\ pr.hw_ov_timer_ms <= FaultTimerCap /\ pr.hw_uv_timer_ms <= FaultTimerCap
    /\ pr.hw_ot_timer_ms <= FaultTimerCap
    /\ pr.oc_charge_timer_ms <= FaultTimerCap /\ pr.oc_discharge_timer_ms <= FaultTimerCap
    /\ pr.warn_ov_timer_ms <= FaultTimerCap /\ pr.warn_uv_timer_ms <= FaultTimerCap
    /\ pr.warn_ot_timer_ms <= FaultTimerCap
    /\ pr.safe_state_ms <= SafeStateCap

\* main.c:63 and task_monitor
MonitorRun ==
    /\ Turn("monitor")
    /\ scan.s_scan_count < ScansOf(scenario.axis)
    /\ LET r == bms_monitor_run(pack, scan, soc, bal, hal)
       IN  /\ pack' = r.pack
           /\ scan' = r.scan
           /\ soc' = r.soc
           /\ bal' = r.bal
    /\ ran' = Ran("monitor")
    /\ UNCHANGED <<prot, ctx, gpio, s_last_ems_cmd, hal, scenario, nev, ctrl, rin>>

\* main.c:64: the loop calls bms_protection_run directly
ProtectionRun(dt_ms) ==
    /\ scenario.build = "loop"
    /\ Turn("protection")
    /\ LET r == bms_protection_run(prot, pack, dt_ms)
       IN  /\ TimersWithinCap(r.prot)
           /\ prot' = r.prot
           /\ pack' = r.pack
    /\ ran' = Ran("protection")
    /\ UNCHANGED <<ctx, gpio, scan, soc, bal, s_last_ems_cmd, hal, scenario, nev, ctrl, rin>>

\* task_protection: protection run, then enter FAULT when the latch is set
TaskProtection(dt_ms) ==
    /\ scenario.build = "rtos"
    /\ Turn("protection")
    /\ LET r == bms_protection_run(prot, pack, dt_ms)
           f == IF r.pack.fault_latched THEN bms_state_enter_fault(r.pack, ctx)
                ELSE [pack |-> r.pack, ctx |-> ctx]
       IN  /\ TimersWithinCap(r.prot)
           /\ prot' = r.prot
           /\ pack' = f.pack
           /\ ctx' = f.ctx
    /\ ran' = Ran("protection")
    /\ UNCHANGED <<gpio, scan, soc, bal, s_last_ems_cmd, hal, scenario, nev, ctrl, rin>>

\* main.c:65: the loop does not copy the contactor state into the pack
ContactorRun(dt_ms) ==
    /\ scenario.build = "loop"
    /\ Turn("contactor")
    /\ LET r == bms_contactor_run(ctx, pack, gpio, hal.fb, hal.fb, dt_ms)
       IN  /\ ctx' = r.ctx
           /\ pack' = r.pack
           /\ gpio' = r.gpio
    /\ ran' = Ran("contactor")
    /\ UNCHANGED <<prot, scan, soc, bal, s_last_ems_cmd, hal, scenario, nev, ctrl, rin>>

\* task_contactor
TaskContactor(dt_ms) ==
    /\ scenario.build = "rtos"
    /\ Turn("contactor")
    /\ LET r == bms_contactor_run(ctx, pack, gpio, hal.fb, hal.fb, dt_ms)
       IN  /\ ctx' = r.ctx
           /\ pack' = [r.pack EXCEPT !.contactor_state = r.ctx.state]
           /\ gpio' = r.gpio
    /\ ran' = Ran("contactor")
    /\ UNCHANGED <<prot, scan, soc, bal, s_last_ems_cmd, hal, scenario, nev, ctrl, rin>>

\* Command types the EMS sends in each scenario
CmdTypesOf(axis) ==
    CASE axis = "cmd" -> EmsCmdTypes
      [] axis = "ems" -> {"NONE", "CONNECT_CHG", "RESET_FAULTS"}
      [] axis = "curr" -> {"CONNECT_CHG", "DISCONNECT", "RESET_FAULTS"}
      [] OTHER -> {"CONNECT_CHG", "RESET_FAULTS"}

\* Tick values the HAL can report when the monitor's count is uptime_ms
Ticks == IF scenario.axis = "ems" THEN {pack.uptime_ms, pack.uptime_ms + TickLead}
         ELSE {pack.uptime_ms}

LimitLevels == {-1000, 100000}

\* bms_can_decode_ems_command / heartbeat: a decoded frame stamped with the tick
Commands(ticks) ==
    {[type |-> ty, charge_limit_ma |-> l, discharge_limit_ma |-> l, timestamp_ms |-> ts] :
        ty \in CmdTypesOf(scenario.axis) \ {"SET_LIMITS"}, l \in {0}, ts \in ticks}
    \cup
    {[type |-> ty, charge_limit_ma |-> l, discharge_limit_ma |-> l, timestamp_ms |-> ts] :
        ty \in CmdTypesOf(scenario.axis) \cap {"SET_LIMITS"}, l \in LimitLevels, ts \in ticks}

\* main.c:66 (null command) and the demo harness (a command stamped with the time)
\* History: the lowest limits that set_limits commands have given to the pack
\* since it became CONNECTED
EmsAfter(before, after, cmd) ==
    IF after.mode # "CONNECTED" THEN EmsNone
    ELSE IF before.mode = "CONNECTED" /\ cmd.type = "SET_LIMITS"
    THEN [set |-> TRUE,
          charge |-> IF nev.ems.set THEN Min(nev.ems.charge, cmd.charge_limit_ma)
                     ELSE cmd.charge_limit_ma,
          discharge |-> IF nev.ems.set THEN Min(nev.ems.discharge, cmd.discharge_limit_ma)
                        ELSE cmd.discharge_limit_ma]
    ELSE nev.ems

StateRun(cmd) ==
    /\ scenario.build = "loop"
    /\ Turn("state")
    /\ cmd.type # "NULL" => nev.cmds < MaxCommands
    /\ LET r == bms_state_run(pack, ctx, prot, cmd)
       IN  /\ pack' = r.pack
           /\ ctx' = r.ctx
           /\ prot' = r.prot
           /\ nev' = [nev EXCEPT !.cmds = IF cmd.type = "NULL" THEN @ ELSE @ + 1,
                                 !.ems = EmsAfter(pack, r.pack, cmd)]
    /\ ran' = Ran("state")
    /\ UNCHANGED <<gpio, scan, soc, bal, s_last_ems_cmd, hal, scenario, ctrl, rin>>

\* task_state: run on the stored command, then consume it
TaskState ==
    /\ scenario.build = "rtos"
    /\ Turn("state")
    /\ LET r == bms_state_run(pack, ctx, prot, s_last_ems_cmd)
       IN  /\ pack' = r.pack
           /\ ctx' = r.ctx
           /\ prot' = r.prot
    /\ s_last_ems_cmd' = [s_last_ems_cmd EXCEPT !.type = "NONE"]
    /\ ran' = Ran("state")
    /\ UNCHANGED <<gpio, scan, soc, bal, hal, scenario, nev, ctrl, rin>>

\* firmware_demo.c:343: the harness sets uptime from its own clock before the
\* state machine runs
AdvanceUptime(dt_ms) ==
    /\ scenario.build = "loop"
    /\ scenario.axis = "ems"
    /\ ran = {"monitor", "protection", "contactor"}
    /\ pack.uptime_ms + dt_ms <= UptimeCap
    /\ pack' = [pack EXCEPT !.uptime_ms = @ + dt_ms]
    /\ UNCHANGED <<prot, ctx, gpio, scan, soc, bal, s_last_ems_cmd, hal, scenario, ran, nev,
                   ctrl, rin>>

\* task_can_rx: store the received command and stamp the watchdog
TaskCanRx(cmd) ==
    /\ CommandEvent
    /\ scenario.build = "rtos"
    /\ s_last_ems_cmd' = cmd
    /\ pack' = [pack EXCEPT !.last_ems_msg_ms = cmd.timestamp_ms]
    /\ UNCHANGED <<prot, ctx, gpio, scan, soc, bal, hal, scenario, ran, ctrl, rin>>

(***************************************************************************)
(* Environment of the firmware: the plant and the harness acting through   *)
(* the HAL (hal_mock.c setters; the demo writes pack_current_ma itself).   *)
(***************************************************************************)
\* mock_set_cell_voltage
SetCellVoltage(i, mv) ==
    /\ HarnessTurn
    /\ InputEvent
    /\ \/ scenario.axis = "ov" /\ mv \in OvLevels
       \/ scenario.axis = "uv" /\ mv \in UvLevels
    /\ hal.cell_mv[i] # mv
    /\ hal' = [hal EXCEPT !.cell_mv[i] = mv]
    /\ UNCHANGED <<pack, prot, ctx, gpio, scan, soc, bal, s_last_ems_cmd, scenario, ran,
                   ctrl, rin>>

\* mock_set_temperature stores 0.1 K
SetTemperature(x, deci_c) ==
    /\ HarnessTurn
    /\ InputEvent
    /\ scenario.axis = "temp"
    /\ hal.temp_raw[x] # deci_c + KELVIN_OFFSET
    /\ hal' = [hal EXCEPT !.temp_raw[x] = deci_c + KELVIN_OFFSET]
    /\ UNCHANGED <<pack, prot, ctx, gpio, scan, soc, bal, s_last_ems_cmd, scenario, ran,
                   ctrl, rin>>

\* firmware_demo.c:311-315: the harness writes the measured pack current
SetPackCurrent(ma) ==
    /\ HarnessTurn
    /\ InputEvent
    /\ scenario.axis = "curr"
    /\ pack.pack_current_ma # ma
    /\ pack' = [pack EXCEPT !.pack_current_ma = ma]
    /\ UNCHANGED <<prot, ctx, gpio, scan, soc, bal, s_last_ems_cmd, hal, scenario, ran,
                   ctrl, rin>>

\* mock_set_safety_a / mock_set_safety_b: one status bit of one module
SetSafetyStatus(m, bit, b) ==
    /\ HarnessTurn
    /\ InputEvent
    /\ scenario.axis = "afe"
    /\ hal[bit][m] # b
    /\ hal' = [hal EXCEPT ![bit][m] = b]
    /\ UNCHANGED <<pack, prot, ctx, gpio, scan, soc, bal, s_last_ems_cmd, scenario, ran,
                   ctrl, rin>>

\* mock_set_i2c_fail
SetI2cFail(b) ==
    /\ HarnessTurn
    /\ InputEvent
    /\ scenario.axis = "afe"
    /\ hal.i2c_fail # b
    /\ hal' = [hal EXCEPT !.i2c_fail = b]
    /\ UNCHANGED <<pack, prot, ctx, gpio, scan, soc, bal, s_last_ems_cmd, scenario, ran,
                   ctrl, rin>>

\* mock_set_gpio_input on both contactor feedback pins
SetFeedback(b) ==
    /\ HarnessTurn
    /\ InputEvent
    /\ scenario.axis = "cmd"
    /\ hal.fb # b
    /\ hal' = [hal EXCEPT !.fb = b]
    /\ UNCHANGED <<pack, prot, ctx, gpio, scan, soc, bal, s_last_ems_cmd, scenario, ran,
                   ctrl, rin>>

(***************************************************************************)
(* Reference controller actions.  corvus_pack_step's physics is not        *)
(* computed: a pack step leaves the pack at any of the input levels, with  *)
(* the current forced to zero while the contactors are open, and the SoC   *)
(* held.                                                                   *)
(***************************************************************************)
RefAxes == {"ov", "uv", "temp", "curr"}
RefSoc == 5000
RefDtShort == 2500
RefDtLong == 30000
RefDts == {RefDtShort, RefDtLong}
RefTimerCap == 7500
RefSafeCap == 90000
MaxRefInputs == 2
MaxRefCalls == 3
ChargeCurrentMa == 6000

RefInit(axis) ==
    corvus_controller_init(RefSoc, IF axis = "curr" THEN ColdTempDeciC ELSE NominalTempDeciC,
                           NominalCellMv)

RefTimersWithinCap(c) ==
    /\ \A f \in {"ov_fault_timer", "uv_fault_timer", "ot_fault_timer", "ov_warn_timer",
                 "uv_warn_timer", "ot_warn_timer", "hw_ov_timer", "hw_uv_timer",
                 "hw_ot_timer", "oc_fault_timer", "oc_warn_timer"} : c[f] <= RefTimerCap
    /\ c.time_in_safe_state <= RefSafeCap

\* The bus voltage is read only by a READY connect request and while CONNECTING
BusLevels ==
    IF ctrl.mode \in {"READY", "CONNECTING"}
    THEN {ctrl.pack.pack_voltage, ctrl.pack.pack_voltage + BusMismatchMv}
    ELSE {ctrl.pack.pack_voltage}

RefInputEvent == rin.inputs < MaxRefInputs /\ rin' = [rin EXCEPT !.inputs = @ + 1]
RefCallEvent == rin.calls < MaxRefCalls /\ rin' = [rin EXCEPT !.calls = @ + 1]

\* The safe condition that update_safe_state_timer and the reset both test
RefSafe(c) ==
    /\ c.pack.cell_voltage < BMS_SE_OVER_VOLTAGE_FAULT
    /\ c.pack.cell_voltage > BMS_SE_UNDER_VOLTAGE_FAULT
    /\ c.pack.temperature < BMS_SE_OVER_TEMP_FAULT

\* History: the safe time the controller has observed, without interruption,
\* in steps that began with the fault latched
SafeSinceLatch(before, after, dt) ==
    IF before.fault_latched /\ after.fault_latched /\ RefSafe(before)
    THEN rin.safe_since_latch + dt
    ELSE 0

\* corvus_pack_step on ctrl.pack
PackStep(cell_v, temperature, current) ==
    /\ scenario.build = "ref"
    /\ RefInputEvent
    /\ ctrl' = [ctrl EXCEPT !.pack = pack_update_voltage(
                   [@ EXCEPT !.current = IF ctrl.contactors_closed THEN current ELSE 0,
                             !.temperature = temperature,
                             !.cell_voltage = cell_v])]
    /\ ctrl'.pack # ctrl.pack
    /\ UNCHANGED fwvars

ControllerStep(dt, bus_voltage) ==
    /\ scenario.build = "ref"
    /\ LET r == corvus_controller_step(ctrl, dt, bus_voltage)
       IN  /\ RefTimersWithinCap(r)
           /\ ctrl' = r
           /\ rin' = [rin EXCEPT !.safe_since_latch = SafeSinceLatch(ctrl, r, dt)]
    /\ UNCHANGED fwvars

RequestConnect(bus_voltage) ==
    /\ scenario.build = "ref"
    /\ RefCallEvent
    /\ ctrl' = corvus_controller_request_connect(ctrl, bus_voltage).ctrl
    /\ UNCHANGED fwvars

CompleteConnection(bus_voltage) ==
    /\ scenario.build = "ref"
    /\ RefCallEvent
    /\ ctrl' = corvus_controller_complete_connection(ctrl, bus_voltage).ctrl
    /\ UNCHANGED fwvars

RequestDisconnect ==
    /\ scenario.build = "ref"
    /\ RefCallEvent
    /\ ctrl' = corvus_controller_request_disconnect(ctrl)
    /\ UNCHANGED fwvars

ManualFaultReset ==
    /\ scenario.build = "ref"
    /\ rin.calls < MaxRefCalls
    /\ LET r == corvus_controller_manual_fault_reset(ctrl)
       IN  /\ ctrl' = r.ctrl
           /\ rin' = [rin EXCEPT !.calls = @ + 1,
                                 !.safe_since_latch =
                                     IF r.ctrl.fault_latched /\ RefSafe(ctrl) THEN @ ELSE 0]
    /\ UNCHANGED fwvars

RefPackLevels ==
    CASE scenario.axis = "ov" -> OvLevels \X {NominalTempDeciC} \X {0}
      [] scenario.axis = "uv" -> UvLevels \X {NominalTempDeciC} \X {0}
      [] scenario.axis = "temp" -> {NominalCellMv} \X TempLevels \X {0}
      [] OTHER -> {NominalCellMv} \X {ColdTempDeciC} \X {0, ChargeCurrentMa}

InitRef ==
    /\ FwInit
    /\ scenario \in [build : {"ref"}, axis : RefAxes]
    /\ hal = HalInit(scenario.axis)
    /\ ctrl = RefInit(scenario.axis)
    /\ rin = [inputs |-> 0, calls |-> 0, safe_since_latch |-> 0]

NextRef ==
    \/ \E l \in RefPackLevels : PackStep(l[1], l[2], l[3])
    \/ \E dt \in RefDts, bus_voltage \in BusLevels : ControllerStep(dt, bus_voltage)
    \/ \E bus_voltage \in BusLevels : RequestConnect(bus_voltage)
    \/ \E bus_voltage \in BusLevels : CompleteConnection(bus_voltage)
    \/ RequestDisconnect
    \/ ManualFaultReset

SpecRef == InitRef /\ [][NextRef]_vars
(***************************************************************************)
(* Unit harness: the protection pass of either program called directly,    *)
(* with the inputs written into the pack data, as src/firmware/test/       *)
(* test_protection.c and src/c/test_corvus.c do.                           *)
(***************************************************************************)
UnitDtShort == 1000
UnitDtLong == 2000
UnitDts == {UnitDtShort, UnitDtLong}
UnitTimerCap == 6000
UnitSafeCap == 8000
MaxUnitInputs == 3
OvDeadbandMv == 4200
UvDeadbandMv == 3210
OtDeadbandDeciC == 580
UnitOvLevels == {NominalCellMv, OvDeadbandMv, BMS_SE_OV_WARN_MV, BMS_SE_OV_FAULT_MV, BMS_HW_OV_MV}
UnitUvLevels == {NominalCellMv, UvDeadbandMv, BMS_SE_UV_WARN_MV, BMS_SE_UV_FAULT_MV, BMS_HW_UV_MV, 0}
UnitTempLevels == {NominalTempDeciC, OtDeadbandDeciC, BMS_SE_OT_WARN_DECI_C,
                   BMS_SE_OT_FAULT_DECI_C, BMS_HW_OT_DECI_C}
UnitCurrentLevels == {0, ChargeCurrentMa, -(BMS_MAX_DISCHARGE_MA + ChargeCurrentMa)}

\* setup_nominal of test_protection.c, aggregated as the monitor does
UnitPack(axis) ==
    bms_monitor_aggregate(
        [PackInit EXCEPT
           !.cell_mv = [i \in Cells |-> NominalCellMv],
           !.temp_deci_c = [s \in Sensors |->
                              IF axis = "curr" THEN ColdTempDeciC ELSE NominalTempDeciC]])

UnitInputEvent == nev.inputs < MaxUnitInputs /\ nev' = [nev EXCEPT !.inputs = @ + 1]

\* The fault conditions of the protection table, on a set of cell voltages,
\* a set of temperatures, a current and the derated charge limit
ConditionAsserted(k, cells, temps, current, charge_limit) ==
    CASE k = "hw_ov" -> \E v \in cells : v >= 4300
      [] k = "hw_uv" -> \E v \in cells : v > 0 /\ v <= 2700
      [] k = "hw_ot" -> \E t \in temps : t >= 700
      [] k = "ov" -> \E v \in cells : v >= 4225
      [] k = "uv" -> \E v \in cells : v > 0 /\ v <= 3000
      [] k = "ot" -> \E t \in temps : t >= 650
      [] k = "oc_charge" -> (\E t \in temps : t < 0) /\ current > charge_limit
      [] OTHER -> current < -640000

AssertedAfter(cells, temps, current, charge_limit, dt) ==
    [k \in FaultKinds |->
        IF ConditionAsserted(k, cells, temps, current, charge_limit)
        THEN Min(AssertedCap, nev.asserted[k] + dt)
        ELSE nev.asserted[k]]

UnitTimersWithinCap(pr) ==
    /\ \A i \in Cells : pr.ov_timer_ms[i] <= UnitTimerCap /\ pr.uv_timer_ms[i] <= UnitTimerCap
    /\ \A x \in Sensors : pr.ot_timer_ms[x] <= UnitTimerCap
    /\ pr.hw_ov_timer_ms <= UnitTimerCap /\ pr.hw_uv_timer_ms <= UnitTimerCap
    /\ pr.hw_ot_timer_ms <= UnitTimerCap
    /\ pr.oc_charge_timer_ms <= UnitTimerCap /\ pr.oc_discharge_timer_ms <= UnitTimerCap
    /\ pr.warn_ov_timer_ms <= UnitTimerCap /\ pr.warn_uv_timer_ms <= UnitTimerCap
    /\ pr.warn_ot_timer_ms <= UnitTimerCap
    /\ pr.safe_state_ms <= UnitSafeCap

RefUnitTimersWithinCap(c) ==
    /\ \A f \in {"ov_fault_timer", "uv_fault_timer", "ot_fault_timer", "ov_warn_timer",
                 "uv_warn_timer", "ot_warn_timer", "hw_ov_timer", "hw_uv_timer",
                 "hw_ot_timer", "oc_fault_timer", "oc_warn_timer"} : c[f] <= UnitTimerCap
    /\ c.time_in_safe_state <= UnitSafeCap

\* The test writes one cell voltage
UnitSetCell(i, mv) ==
    /\ scenario.build = "fwunit" /\ scenario.axis \in {"ov", "uv"}
    /\ pack.cell_mv[i] # mv
    /\ UnitInputEvent
    /\ pack' = bms_monitor_aggregate([pack EXCEPT !.cell_mv[i] = mv])
    /\ ran' = {}
    /\ UNCHANGED <<prot, ctx, gpio, scan, soc, bal, s_last_ems_cmd, hal, scenario, ctrl, rin>>

UnitSetTemp(x, deci_c) ==
    /\ scenario.build = "fwunit" /\ scenario.axis \in {"temp", "curr"}
    /\ pack.temp_deci_c[x] # deci_c
    /\ UnitInputEvent
    /\ pack' = bms_monitor_aggregate([pack EXCEPT !.temp_deci_c[x] = deci_c])
    /\ ran' = {}
    /\ UNCHANGED <<prot, ctx, gpio, scan, soc, bal, s_last_ems_cmd, hal, scenario, ctrl, rin>>

UnitSetCurrent(ma) ==
    /\ scenario.build = "fwunit" /\ scenario.axis = "curr"
    /\ pack.pack_current_ma # ma
    /\ UnitInputEvent
    /\ pack' = [pack EXCEPT !.pack_current_ma = ma]
    /\ ran' = {}
    /\ UNCHANGED <<prot, ctx, gpio, scan, soc, bal, s_last_ems_cmd, hal, scenario, ctrl, rin>>

\* bms_protection_run(&s_prot, &s_pack, dt)
UnitProtectionRun(dt_ms) ==
    /\ scenario.build = "fwunit"
    /\ LET r == bms_protection_run(prot, pack, dt_ms)
       IN  /\ UnitTimersWithinCap(r.prot)
           /\ prot' = r.prot
           /\ pack' = r.pack
    /\ ran' = {"protection"}
    /\ nev' = [nev EXCEPT !.asserted =
                  AssertedAfter({pack.cell_mv[i] : i \in Cells},
                                {pack.temp_deci_c[x] : x \in Sensors},
                                pack.pack_current_ma, temp_limit(pack.max_temp_deci_c).c,
                                dt_ms)]
    /\ UNCHANGED <<ctx, gpio, scan, soc, bal, s_last_ems_cmd, hal, scenario, ctrl, rin>>

\* The test writes ctrl.pack.cell_voltage, temperature or current
RefUnitSetPack(cell_v, temperature, current) ==
    /\ scenario.build = "refunit"
    /\ UnitInputEvent
    /\ ctrl' = [ctrl EXCEPT !.pack.cell_voltage = cell_v, !.pack.temperature = temperature,
                            !.pack.current = current]
    /\ ctrl' # ctrl
    /\ ran' = {}
    /\ UNCHANGED <<pack, prot, ctx, gpio, scan, soc, bal, s_last_ems_cmd, hal, scenario, rin>>

\* corvus_controller_step(&ctrl, dt, bus_v)
RefUnitStep(dt) ==
    /\ scenario.build = "refunit"
    /\ LET r == corvus_controller_step(ctrl, dt, ctrl.pack.pack_voltage)
       IN  /\ RefUnitTimersWithinCap(r)
           /\ ctrl' = r
    /\ ran' = {"protection"}
    /\ nev' = [nev EXCEPT !.asserted =
                  AssertedAfter({ctrl.pack.cell_voltage}, {ctrl.pack.temperature},
                                ctrl.pack.current,
                                corvus_temp_current_limit(ctrl.pack.temperature,
                                                          ctrl.pack.capacity_ah).charge,
                                dt)]
    /\ UNCHANGED <<pack, prot, ctx, gpio, scan, soc, bal, s_last_ems_cmd, hal, scenario, rin>>

\* corvus_controller_manual_fault_reset(&ctrl), called on a latched controller
RefUnitReset ==
    /\ scenario.build = "refunit"
    /\ ctrl.fault_latched
    /\ ctrl' = corvus_controller_manual_fault_reset(ctrl).ctrl
    /\ ran' = {"reset"}
    /\ UNCHANGED <<pack, prot, ctx, gpio, scan, soc, bal, s_last_ems_cmd, hal, scenario, nev,
                   rin>>

\* A reading of 0 V (an unconnected cell) is a firmware input only: the
\* reference pack's cell voltage is an open-circuit voltage plus an IR drop
RefUnitLevels ==
    CASE scenario.axis = "ov" -> UnitOvLevels \X {NominalTempDeciC} \X {0}
      [] scenario.axis = "uv" -> (UnitUvLevels \ {0}) \X {NominalTempDeciC} \X {0}
      [] scenario.axis = "temp" -> {NominalCellMv} \X UnitTempLevels \X {0}
      [] OTHER -> {NominalCellMv} \X {ColdTempDeciC} \X UnitCurrentLevels

InitProt ==
    /\ FwRest
    /\ scenario \in [build : {"fwunit", "refunit"}, axis : RefAxes]
    /\ pack = UnitPack(scenario.axis)
    /\ hal = HalInit(scenario.axis)
    /\ ctrl = RefInit(scenario.axis)
    /\ rin = [inputs |-> 0, calls |-> 0, safe_since_latch |-> 0]

NextProt ==
    \/ \E i \in Cells, mv \in UnitOvLevels :
          scenario.axis = "ov" /\ UnitSetCell(i, mv)
    \/ \E i \in Cells, mv \in UnitUvLevels :
          scenario.axis = "uv" /\ UnitSetCell(i, mv)
    \/ \E x \in Sensors, deci_c \in UnitTempLevels :
          scenario.axis = "temp" /\ UnitSetTemp(x, deci_c)
    \* with a current: sub-zero, or the warmest temperature of zero charge limit
    \/ \E x \in Sensors, deci_c \in {ColdTempDeciC, temp_chg_bp[3]} :
          scenario.axis = "curr" /\ UnitSetTemp(x, deci_c)
    \/ \E ma \in UnitCurrentLevels : UnitSetCurrent(ma)
    \/ \E dt_ms \in UnitDts : UnitProtectionRun(dt_ms)
    \/ \E l \in RefUnitLevels : RefUnitSetPack(l[1], l[2], l[3])
    \/ \E dt \in UnitDts : RefUnitStep(dt)
    \/ RefUnitReset

SpecProt == InitProt /\ [][NextProt]_vars
(***************************************************************************)
(* Warning harness (test_under_voltage_warning and                         *)
(* test_warning_hysteresis_clear of src/c/test_corvus.c, and the same      *)
(* sequence on the firmware's protection pass): the test writes one input  *)
(* to a nominal, a deadband or a warning level and runs the protection     *)
(* pass.  In this specification rin is [inputs, elapsed]: the number of    *)
(* writes and the time the passes have covered.                            *)
(***************************************************************************)
WarnDtShort == 2500
WarnDtLong == 5000
WarnDts == {WarnDtShort, WarnDtLong}
WarnHorizon == 25000
MaxWarnInputs == 2
WarnAxes == {"ov", "uv", "temp"}

WarnLevels(axis) ==
    CASE axis = "ov" -> {NominalCellMv, OvDeadbandMv, BMS_SE_OV_WARN_MV}
      [] axis = "uv" -> {NominalCellMv, UvDeadbandMv, BMS_SE_UV_WARN_MV}
      [] OTHER -> {NominalTempDeciC, OtDeadbandDeciC, BMS_SE_OT_WARN_DECI_C}

\* The test writes the cell voltage or the temperature
WarnSetInput(level) ==
    /\ scenario.build \in {"fwwarn", "refwarn"}
    /\ rin.inputs < MaxWarnInputs
    /\ rin' = [rin EXCEPT !.inputs = @ + 1]
    /\ IF scenario.build = "fwwarn"
       THEN /\ pack' = bms_monitor_aggregate(
                          IF scenario.axis = "temp"
                          THEN [pack EXCEPT !.temp_deci_c[1] = level]
                          ELSE [pack EXCEPT !.cell_mv[1] = level])
            /\ pack' # pack
            /\ ctrl' = ctrl
       ELSE /\ ctrl' = IF scenario.axis = "temp"
                       THEN [ctrl EXCEPT !.pack.temperature = level]
                       ELSE [ctrl EXCEPT !.pack.cell_voltage = level]
            /\ ctrl' # ctrl
            /\ pack' = pack
    /\ ran' = {}
    /\ UNCHANGED <<prot, ctx, gpio, scan, soc, bal, s_last_ems_cmd, hal, scenario, nev>>

\* bms_protection_run(&s_prot, &s_pack, dt) or corvus_controller_step(&ctrl, dt, bus_v)
WarnRun(dt) ==
    /\ scenario.build \in {"fwwarn", "refwarn"}
    /\ rin.elapsed + dt <= WarnHorizon
    /\ rin' = [rin EXCEPT !.elapsed = @ + dt]
    /\ IF scenario.build = "fwwarn"
       THEN LET r == bms_protection_run(prot, pack, dt)
            IN  prot' = r.prot /\ pack' = r.pack /\ ctrl' = ctrl
       ELSE /\ ctrl' = corvus_controller_step(ctrl, dt, ctrl.pack.pack_voltage)
            /\ UNCHANGED <<prot, pack>>
    /\ ran' = {"protection"}
    /\ UNCHANGED <<ctx, gpio, scan, soc, bal, s_last_ems_cmd, hal, scenario, nev>>

InitWarn ==
    /\ FwRest
    /\ scenario \in [build : {"fwwarn", "refwarn"}, axis : WarnAxes]
    /\ pack = UnitPack(scenario.axis)
    /\ hal = HalInit(scenario.axis)
    /\ ctrl = RefInit(scenario.axis)
    /\ rin = [inputs |-> 0, elapsed |-> 0]

NextWarn ==
    \/ \E level \in WarnLevels(scenario.axis) : WarnSetInput(level)
    \/ \E dt \in WarnDts : WarnRun(dt)

SpecWarn == InitWarn /\ [][NextWarn]_vars

(***************************************************************************)
(* SoC estimator called directly: bms_soc_init(0), then consecutive        *)
(* bms_soc_update calls with a constant charge current, as bms_monitor_run *)
(* makes them every BMS_MONITOR_PERIOD_MS.  One step is one second of      *)
(* calls.  In this specification rin is [dt, elapsed]: the period of the   *)
(* calls and the time they have covered.                                   *)
(***************************************************************************)
CoulombCurrentMa == 128000
CoulombDurationMs == 3600000
SocDtLong == 1000
SocSecondMs == 1000
SocDts == {BMS_MONITOR_PERIOD_MS, SocDtLong}

\* n consecutive calls bms_soc_update(&pack, dt); the stored estimate is a
\* value of 0..10000 after every call
RECURSIVE soc_updates(_, _, _)
soc_updates(r, dt, n) ==
    IF n = 0 \/ r.soc.s_soc_hundredths > 10000 THEN r
    ELSE soc_updates(bms_soc_update(r.soc, r.pack, dt), dt, n - 1)

\* One second of calls: SocSecondMs \div dt calls of bms_soc_update(&pack, dt)
SocUpdate ==
    /\ scenario.build = "socunit"
    /\ rin.elapsed < CoulombDurationMs
    /\ LET r == soc_updates([soc |-> soc, pack |-> pack], rin.dt, SocSecondMs \div rin.dt)
       IN  /\ soc' = r.soc
           /\ pack' = r.pack
    /\ rin' = [rin EXCEPT !.elapsed = @ + SocSecondMs]
    /\ UNCHANGED <<prot, ctx, gpio, scan, bal, s_last_ems_cmd, hal, scenario, ran, nev, ctrl>>

InitSoc ==
    /\ prot = ProtZero
    /\ ctx = ContactorInit
    /\ gpio = all_contactors_off
    /\ scan = [s_current_module |-> 1, s_scan_complete |-> FALSE, s_scan_count |-> 0]
    /\ soc = [s_soc_hundredths |-> 0, s_low_current_ms |-> 0]
    /\ bal = BalanceOff
    /\ s_last_ems_cmd = [NullCmd EXCEPT !.type = "NONE"]
    /\ ran = {}
    /\ nev = [inputs |-> 0, cmds |-> 0, asserted |-> AssertedZero, ems |-> EmsNone]
    /\ scenario = [build |-> "socunit", axis |-> "none"]
    /\ pack = [UnitPack("none") EXCEPT !.soc_hundredths = 0, !.mode = "CONNECTED",
                                       !.pack_current_ma = CoulombCurrentMa]
    /\ hal = HalInit(scenario.axis)
    /\ ctrl = RefInit(scenario.axis)
    /\ rin \in [dt : SocDts, elapsed : {0}]

NextSoc == SocUpdate

SpecSoc == InitSoc /\ [][NextSoc]_vars

(***************************************************************************)
(* Fault log in NVM: src/firmware/src/bms_nvm.c.  c is the bms_nvm_ctx_t   *)
(* [fault_log, fault_head, fault_count]; the log is indexed 0..63 as in    *)
(* the source.  Writing through to the NVM device (bms_hal_nvm_write) does *)
(* not change the context and is not modelled.                             *)
(***************************************************************************)
BMS_NVM_FAULT_LOG_SIZE == 64

NvmNoEvent == [timestamp_ms |-> 0, fault_type |-> 0, cell_index |-> 0, value |-> 0]

\* bms_nvm_init on an NVM that mock_nvm_reset has zeroed
bms_nvm_init ==
    [fault_log |-> [i \in 0..(BMS_NVM_FAULT_LOG_SIZE - 1) |-> NvmNoEvent],
     fault_head |-> 0, fault_count |-> 0]

bms_nvm_log_fault(c, timestamp_ms, fault_type, cell_index, value) ==
    [fault_log |-> [c.fault_log EXCEPT ![c.fault_head] =
                       [timestamp_ms |-> timestamp_ms, fault_type |-> fault_type,
                        cell_index |-> cell_index, value |-> value]],
     fault_head |-> ((c.fault_head + 1) % BMS_NVM_FAULT_LOG_SIZE) % 256,
     fault_count |-> IF c.fault_count < BMS_NVM_FAULT_LOG_SIZE
                     THEN c.fault_count + 1 ELSE c.fault_count]

\* Variant: index 0 read at the head, the next write position
bms_nvm_get_fault_at_head(c, idx) ==
    IF idx >= c.fault_count THEN [ret |-> FALSE, event |-> NvmNoEvent]
    ELSE [ret |-> TRUE,
          event |-> c.fault_log[((c.fault_head + BMS_NVM_FAULT_LOG_SIZE - idx)
                                    % BMS_NVM_FAULT_LOG_SIZE) % 256]]

\* ret is the return value; event is *event, written only when ret is true
bms_nvm_get_fault(c, idx) ==
    IF idx >= c.fault_count THEN [ret |-> FALSE, event |-> NvmNoEvent]
    ELSE [ret |-> TRUE,
          event |-> c.fault_log[((c.fault_head + BMS_NVM_FAULT_LOG_SIZE - 1 - idx)
                                    % BMS_NVM_FAULT_LOG_SIZE) % 256]]

(***************************************************************************)
(* Fault log called directly, as test_ring_buffer_wrap of                  *)
(* src/firmware/test/test_nvm.c does: the i-th write logs the event        *)
(* (100 i, first_type + i, i, 10 i).  In this specification ctrl is the    *)
(* bms_nvm_ctx_t and rin is [first_type, written, got]: the fault type of  *)
(* the first event, the sequence of events written so far and the result   *)
(* of the last bms_nvm_get_fault.                                          *)
(***************************************************************************)
MaxWrites == 70
NvmFirstTypes == {0, 1, 200}
NvmIdxs == {0, 1, BMS_NVM_FAULT_LOG_SIZE - 1, BMS_NVM_FAULT_LOG_SIZE, 255}

\* bms_nvm_log_fault(&s_ctx, i * 100U, type, i, (uint16_t)(i * 10U))
NvmLogFault ==
    /\ scenario.build = "nvmunit"
    /\ Len(rin.written) < MaxWrites
    /\ LET i == Len(rin.written)
           ev == [timestamp_ms |-> i * 100, fault_type |-> (rin.first_type + i) % 256,
                  cell_index |-> i % 256, value |-> (i * 10) % 65536]
       IN  /\ ctrl' = bms_nvm_log_fault(ctrl, ev.timestamp_ms, ev.fault_type,
                                        ev.cell_index, ev.value)
           /\ rin' = [rin EXCEPT !.written = Append(@, ev)]
    /\ UNCHANGED fwvars

\* bms_nvm_get_fault(&s_ctx, idx, &ev)
NvmGetFault(idx) ==
    /\ scenario.build = "nvmunit"
    /\ rin' = [rin EXCEPT !.got = [idx |-> idx, r |-> bms_nvm_get_fault(ctrl, idx)]]
    /\ ctrl' = ctrl
    /\ UNCHANGED fwvars

InitNvm ==
    /\ FwInit
    /\ scenario = [build |-> "nvmunit", axis |-> "none"]
    /\ hal = HalInit(scenario.axis)
    /\ ctrl = bms_nvm_init
    /\ rin \in [first_type : NvmFirstTypes, written : {<<>>},
                got : {[idx |-> 0, r |-> [ret |-> FALSE, event |-> NvmNoEvent]]}]

NextNvm ==
    \/ NvmLogFault
    \/ \E idx \in NvmIdxs : NvmGetFault(idx)

SpecNvm == InitNvm /\ [][NextNvm]_vars

(***************************************************************************)
(* Software faults logged to the NVM fault log, for a pack of full size:   *)
(* the test drives one cell voltage or one temperature reading to its      *)
(* fault level and runs bms_protection_run for the fault delay, which      *)
(* trips the timer of that reading and logs it; the newest event is then   *)
(* read back.  In this specification ctrl is the bms_nvm_ctx_t and rin is  *)
(* [kind, index, set, logged, got].                                        *)
(* src/firmware/src/bms_protection.c:40-46, 182-236,                       *)
(* src/firmware/inc/bms_nvm.h:19-24                                        *)
(***************************************************************************)
BMS_SE_PER_PACK == 308
BMS_TOTAL_TEMP_SENSORS == 66
LogKinds == {"ov", "uv", "ot"}

LogIndexes(kind) ==
    IF kind = "ot" THEN 0..(BMS_TOTAL_TEMP_SENSORS - 1) ELSE 0..(BMS_SE_PER_PACK - 1)

\* The fault type and the value bms_protection_run passes for each check
LogFaultType(kind) == CASE kind = "ov" -> 1 [] kind = "uv" -> 2 [] OTHER -> 3

LogFaultValue(kind) ==
    CASE kind = "ov" -> BMS_SE_OV_FAULT_MV
      [] kind = "uv" -> BMS_SE_UV_FAULT_MV
      [] OTHER -> BMS_SE_OT_FAULT_DECI_C

\* log_fault_to_nvm(timestamp, type, (uint8_t)i, val): type and cell are
\* uint8_t parameters, val is uint16_t
log_fault_to_nvm(c, timestamp, type, cell, val) ==
    bms_nvm_log_fault(c, timestamp, type % 256, cell % 256, val % U16)

\* pack.cell_mv[i] or the i-th temperature reading is set to its fault level
LogSetReading(kind, i) ==
    /\ scenario.build = "logunit"
    /\ ~rin.set
    /\ rin' = [rin EXCEPT !.kind = kind, !.index = i, !.set = TRUE]
    /\ ctrl' = ctrl
    /\ UNCHANGED fwvars

\* bms_protection_run(&prot, &pack, BMS_SE_FAULT_DELAY_MS): the loop reaches
\* the reading at its fault level, its timer trips and the fault is logged
\* with pack->uptime_ms; once the fault is latched nothing more is logged
LogProtectionRun ==
    /\ scenario.build = "logunit"
    /\ rin.set /\ ~rin.logged
    /\ ctrl' = log_fault_to_nvm(ctrl, pack.uptime_ms, LogFaultType(rin.kind), rin.index,
                                LogFaultValue(rin.kind))
    /\ rin' = [rin EXCEPT !.logged = TRUE]
    /\ UNCHANGED fwvars

\* bms_nvm_get_fault(&nvm, 0, &ev)
LogGetFault ==
    /\ scenario.build = "logunit"
    /\ rin' = [rin EXCEPT !.got = bms_nvm_get_fault(ctrl, 0)]
    /\ ctrl' = ctrl
    /\ UNCHANGED fwvars

InitLog ==
    /\ FwInit
    /\ scenario = [build |-> "logunit", axis |-> "none"]
    /\ hal = HalInit(scenario.axis)
    /\ ctrl = bms_nvm_init
    /\ rin = [kind |-> "ov", index |-> 0, set |-> FALSE, logged |-> FALSE,
              got |-> [ret |-> FALSE, event |-> NvmNoEvent]]

NextLog ==
    \/ \E kind \in LogKinds : \E i \in LogIndexes(kind) : LogSetReading(kind, i)
    \/ LogProtectionRun
    \/ LogGetFault

SpecLog == InitLog /\ [][NextLog]_vars

(***************************************************************************)
(* Leaky timers under any dt: bms_protection_run with its unsigned dt_ms   *)
(* and corvus_controller_step with its double dt, which a caller           *)
(* (corvus_array_step included) may pass zero or negative.                 *)
(* src/firmware/src/bms_protection.c:50-68, src/c/corvus_bms.c:383-550,    *)
(* 684-694, 1021-1027                                                      *)
(***************************************************************************)
LeakDtStep == 1000
LeakDtBack == -LeakDtStep
MaxLeakInputs == 2
MaxLeakCalls == 4
LeakAxes == {"ov", "uv", "temp"}

LeakDts(build) ==
    IF build = "refleak" THEN {LeakDtBack, 0, LeakDtStep} ELSE {0, LeakDtStep}

LeakLevels(axis) ==
    CASE axis = "ov" -> {NominalCellMv, BMS_SE_OV_FAULT_MV, BMS_HW_OV_MV}
      [] axis = "uv" -> {NominalCellMv, BMS_SE_UV_FAULT_MV, BMS_HW_UV_MV}
      [] OTHER -> {NominalTempDeciC, BMS_SE_OT_FAULT_DECI_C, BMS_HW_OT_DECI_C}

\* The caller writes the cell voltage or the temperature
LeakSetInput(level) ==
    /\ scenario.build \in {"fwleak", "refleak"}
    /\ rin.inputs < MaxLeakInputs
    /\ rin' = [rin EXCEPT !.inputs = @ + 1]
    /\ IF scenario.build = "fwleak"
       THEN /\ pack' = bms_monitor_aggregate(
                          IF scenario.axis = "temp"
                          THEN [pack EXCEPT !.temp_deci_c[1] = level]
                          ELSE [pack EXCEPT !.cell_mv[1] = level])
            /\ pack' # pack
            /\ ctrl' = ctrl
       ELSE /\ ctrl' = IF scenario.axis = "temp"
                       THEN [ctrl EXCEPT !.pack.temperature = level]
                       ELSE [ctrl EXCEPT !.pack.cell_voltage = level]
            /\ ctrl' # ctrl
            /\ pack' = pack
    /\ ran' = {}
    /\ UNCHANGED <<prot, ctx, gpio, scan, soc, bal, s_last_ems_cmd, hal, scenario, nev>>

\* bms_protection_run(&s_prot, &s_pack, dt) or corvus_controller_step(&ctrl, dt, bus_v),
\* the latter as corvus_array_step calls it for each pack with its own dt
LeakRun(dt) ==
    /\ scenario.build \in {"fwleak", "refleak"}
    /\ rin.calls < MaxLeakCalls
    /\ rin' = [rin EXCEPT !.calls = @ + 1, !.dt = dt]
    /\ IF scenario.build = "fwleak"
       THEN LET r == bms_protection_run(prot, pack, dt)
            IN  prot' = r.prot /\ pack' = r.pack /\ ctrl' = ctrl
       ELSE /\ ctrl' = corvus_controller_step(ctrl, dt, ctrl.pack.pack_voltage)
            /\ UNCHANGED <<prot, pack>>
    /\ ran' = {"protection"}
    /\ UNCHANGED <<ctx, gpio, scan, soc, bal, s_last_ems_cmd, hal, scenario, nev>>

InitLeak ==
    /\ FwRest
    /\ scenario \in [build : {"fwleak", "refleak"}, axis : LeakAxes]
    /\ pack = UnitPack(scenario.axis)
    /\ hal = HalInit(scenario.axis)
    /\ ctrl = RefInit(scenario.axis)
    /\ rin = [inputs |-> 0, calls |-> 0, dt |-> 0]

NextLeak ==
    \/ \E level \in LeakLevels(scenario.axis) : LeakSetInput(level)
    \/ \E dt \in LeakDts(scenario.build) : LeakRun(dt)

SpecLeak == InitLeak /\ [][NextLeak]_vars

(***************************************************************************)
(* Oscillating input (test_oscillating_ov_fault of src/c/test_corvus.c):   *)
(* one cell voltage is held high for OscPhaseMs, then low for OscPhaseMs,  *)
(* for TenCycles cycles, with the protection pass run every rin.dt.  In    *)
(* this specification rin is the driver: [phase, elapsed, cycles, high,    *)
(* low, dt].                                                               *)
(***************************************************************************)
OscPhaseMs == 2000
TenCycles == 10
JustBelowOvMv == BMS_SE_OV_FAULT_MV - 1
AboveOvMv == BMS_SE_OVER_VOLTAGE_FAULT + 10
OscHighLevels == {BMS_SE_OV_FAULT_MV, AboveOvMv, BMS_HW_OV_MV}
OscLowLevels == {NominalCellMv, JustBelowOvMv}
OscDts == {500, 1000, 2000}

\* The test writes the next level of the cycle into the cell voltage
OscSetLevel ==
    /\ scenario.build \in {"fwosc", "refosc"}
    /\ rin.cycles < TenCycles
    /\ rin.phase = "idle" \/ rin.elapsed >= OscPhaseMs
    /\ LET next_phase == IF rin.phase = "high" THEN "low" ELSE "high"
           mv == IF next_phase = "high" THEN rin.high ELSE rin.low
       IN  /\ rin' = [rin EXCEPT !.phase = next_phase, !.elapsed = 0]
           /\ IF scenario.build = "fwosc"
              THEN /\ pack' = bms_monitor_aggregate([pack EXCEPT !.cell_mv[1] = mv])
                   /\ ctrl' = ctrl
              ELSE /\ ctrl' = [ctrl EXCEPT !.pack.cell_voltage = mv]
                   /\ pack' = pack
    /\ ran' = {}
    /\ UNCHANGED <<prot, ctx, gpio, scan, soc, bal, s_last_ems_cmd, hal, scenario, nev>>

\* One protection pass of either program inside a phase
OscRun ==
    /\ scenario.build \in {"fwosc", "refosc"}
    /\ rin.phase \in {"high", "low"}
    /\ rin.elapsed < OscPhaseMs
    /\ rin' = [rin EXCEPT
                 !.elapsed = @ + rin.dt,
                 !.cycles = IF rin.phase = "low" /\ rin.elapsed + rin.dt >= OscPhaseMs
                            THEN @ + 1 ELSE @]
    /\ IF scenario.build = "fwosc"
       THEN LET r == bms_protection_run(prot, pack, rin.dt)
            IN  prot' = r.prot /\ pack' = r.pack /\ ctrl' = ctrl
       ELSE /\ ctrl' = corvus_controller_step(ctrl, rin.dt, ctrl.pack.pack_voltage)
            /\ UNCHANGED <<prot, pack>>
    /\ ran' = {"protection"}
    /\ UNCHANGED <<ctx, gpio, scan, soc, bal, s_last_ems_cmd, hal, scenario, nev>>

InitOsc ==
    /\ FwRest
    /\ scenario \in [build : {"fwosc", "refosc"}, axis : {"ov"}]
    /\ pack = UnitPack(scenario.axis)
    /\ hal = HalInit(scenario.axis)
    /\ ctrl = RefInit(scenario.axis)
    /\ rin \in [phase : {"idle"}, elapsed : {0}, cycles : {0},
                high : OscHighLevels, low : OscLowLevels, dt : OscDts]

NextOsc == OscSetLevel \/ OscRun

SpecOsc == InitOsc /\ [][NextOsc]_vars
(***************************************************************************)
(* State machine called directly, as src/firmware/test/test_state.c does:  *)
(* the test writes the mode, the latch, the contactor state and the clock  *)
(* into the pack data and calls bms_state_run with a command.              *)
(***************************************************************************)
StateUptimes == {0, BMS_EMS_WATCHDOG_MS, BMS_EMS_WATCHDOG_MS + 1}

\* setup() of test_state.c, then the fields the test writes
InitState ==
    /\ prot \in {ProtZero, [ProtZero EXCEPT !.safe_state_ms = BMS_FAULT_RESET_HOLD_MS]}
    /\ ctx \in {[ContactorInit EXCEPT !.state = cs] : cs \in ContactorStates}
    /\ gpio = all_contactors_off
    /\ scan = [s_current_module |-> 1, s_scan_complete |-> FALSE, s_scan_count |-> 0]
    /\ soc = [s_soc_hundredths |-> 5000, s_low_current_ms |-> 0]
    /\ bal = BalanceOff
    /\ s_last_ems_cmd = [NullCmd EXCEPT !.type = "NONE"]
    /\ ran = {}
    /\ nev = [inputs |-> 0, cmds |-> 0, asserted |-> AssertedZero, ems |-> EmsNone]
    /\ scenario = [build |-> "stunit", axis |-> "cmd"]
    /\ \E m \in Modes, l \in BOOLEAN, u \in StateUptimes :
          pack = [UnitPack("cmd") EXCEPT !.comm_ok = [k \in Modules |-> TRUE],
                                         !.mode = m, !.fault_latched = l,
                                         !.uptime_ms = u]
    /\ hal = HalInit(scenario.axis)
    /\ ctrl = RefInit(scenario.axis)
    /\ rin = [inputs |-> 0, calls |-> 0, safe_since_latch |-> 0]

\* bms_state_run(&s_pack, &s_contactor, &s_prot, &cmd, 100U)
UnitStateRun(cmd) ==
    /\ scenario.build = "stunit"
    /\ LET r == bms_state_run(pack, ctx, prot, cmd)
       IN  /\ pack' = r.pack
           /\ ctx' = r.ctx
           /\ prot' = r.prot
    /\ ran' = {"state"}
    /\ UNCHANGED <<gpio, scan, soc, bal, s_last_ems_cmd, hal, scenario, nev, ctrl, rin>>

NextState ==
    \E ty \in EmsCmdTypes \cup {"NULL"} :
       UnitStateRun([NullCmd EXCEPT !.type = ty, !.timestamp_ms = pack.uptime_ms])

SpecState == InitState /\ [][NextState]_vars
(***************************************************************************)
(* Current solver called on an array with connected packs, as              *)
(* corvus_array_step does after it has stepped the controllers.  ctrl      *)
(* holds the array, rin the call: its target, its mode, the solver's       *)
(* locals s and the number of loop passes made.  Packs sit on breakpoints  *)
(* of the resistance and open-circuit tables.                              *)
(***************************************************************************)
MaxPacks == 3
PackTypes ==
    { [soc |-> 2000, temperature |-> 350],
      [soc |-> 8000, temperature |-> 100],
      [soc |-> 3500, temperature |-> 0] }
SolveCellLevels == {BMS_SE_UNDER_VOLTAGE_WARNING, 3300, NominalCellMv, 4150}
SolveTargets == {0, 100000, -100000, 1500000, -1500000}

\* A pack that is CONNECTED after its controller step: limits from its levels
ConnectedPack(id, ty, cell_v) ==
    LET c == array_controller_init(id, ty.soc, ty.temperature)
    IN  controller_limits(
            [c EXCEPT !.mode = "CONNECTED", !.contactors_closed = TRUE,
                      !.pack = pack_update_voltage([c.pack EXCEPT !.cell_voltage = cell_v])])

SolveArrays ==
    UNION { { corvus_array_compute_limits(
                  [controllers |-> [i \in 1..n |-> ConnectedPack(i, ty[i], lv[i])],
                   num_packs |-> n, bus_voltage |-> 0,
                   array_charge_limit |-> 0, array_discharge_limit |-> 0]) :
              ty \in [1..n -> PackTypes], lv \in [1..n -> SolveCellLevels] } :
            n \in 1..MaxPacks }

InitSolve ==
    /\ FwInit
    /\ scenario = [build |-> "solve", axis |-> "none"]
    /\ hal = HalInit(scenario.axis)
    /\ ctrl \in SolveArrays
    /\ \E target \in SolveTargets :
          rin = [target |-> target, is_equalization |-> (target = 0), passes |-> 0,
                 s |-> solve_begin(ctrl, connected(ctrl), target, target = 0)]

\* One pass of the clamping loop (or the code after it, when the pass leaves the loop)
SolveIteration ==
    /\ scenario.build = "solve"
    /\ rin.s.exit = "loop"
    /\ rin' = [rin EXCEPT !.s = solve_iteration(connected(ctrl), rin.s, rin.is_equalization),
                          !.passes = @ + 1]
    /\ UNCHANGED <<pack, prot, ctx, gpio, scan, soc, bal, s_last_ems_cmd, hal, scenario, ran,
                   nev, ctrl>>

NextSolve == SolveIteration

SpecSolve == InitSolve /\ [][NextSolve]_vars
(***************************************************************************)
(* Array driven through its API, as the array tests of                     *)
(* src/c/test_corvus.c do.  ctrl holds the array; rin counts the calls and *)
(* the writes to a pack and keeps, of the last call, its name, the packs   *)
(* it issued a connect request to, its for_charge flag and the currents    *)
(* handed to corvus_pack_step, the packs that latched a fault during it    *)
(* and the packs that carried current when it began.                       *)
(***************************************************************************)
MaxArrayCalls == 4
MaxArrayInputs == 1
ArrayDts == {0, BMS_PRECHARGE_DURATION}
ArrayCurrents == {0, 100000}
\* the pack types whose voltages lie within the connect tolerance of each other
ArrayPackTypes == {ty \in PackTypes : ty.soc < RefSoc}
ArrayCellLevels == {NominalCellMv, BMS_SE_OVER_VOLTAGE_FAULT}
\* id lists with and without a repeated id
IdLists(n) == { [i \in 1..n |-> i], [i \in 1..n |-> IF i = n THEN 1 ELSE i] }

ArrayCall(name, array, requested, for_charge, commanded) ==
    /\ scenario.build = "array"
    /\ rin.calls < MaxArrayCalls
    /\ ctrl' = array
    /\ rin' = [rin EXCEPT !.calls = @ + 1, !.last = name, !.requested = requested,
                          !.for_charge = for_charge, !.commanded = commanded,
                          !.latched_now = {i \in 1..ctrl.num_packs :
                                             /\ ~ctrl.controllers[i].fault_latched
                                             /\ array.controllers[i].fault_latched},
                          !.carrying = {i \in 1..ctrl.num_packs :
                                          ctrl.controllers[i].pack.current # 0}]
    /\ UNCHANGED <<pack, prot, ctx, gpio, scan, soc, bal, s_last_ems_cmd, hal, scenario, ran,
                   nev>>

\* A call that leaves the array as it was is not counted
ArrayChange(name, array) ==
    /\ array # ctrl
    /\ ArrayCall(name, array, <<>>, FALSE, <<>>)

ArrayUpdateBusVoltage ==
    ArrayChange("update_bus_voltage", corvus_array_update_bus_voltage(ctrl))

ArrayConnected(name, r, for_charge) == ArrayCall(name, r.array, r.requested, for_charge, <<>>)

ArrayConnectFirst(for_charge) ==
    ArrayConnected("connect_first", corvus_array_connect_first(ctrl, for_charge), for_charge)

ArrayConnectRemaining(for_charge) ==
    /\ corvus_array_connect_remaining(ctrl, for_charge).array # ctrl
    /\ ArrayConnected("connect_remaining", corvus_array_connect_remaining(ctrl, for_charge),
                      for_charge)

ArrayDisconnectAll == ArrayChange("disconnect_all", corvus_array_disconnect_all(ctrl))

\* asked for whenever some pack is latched, whether or not the reset is granted
ArrayResetAllFaults ==
    /\ \E i \in 1..ctrl.num_packs : ctrl.controllers[i].fault_latched
    /\ ArrayCall("reset_all_faults", corvus_array_reset_all_faults(ctrl), <<>>, FALSE, <<>>)

ArrayStepped(r) == ArrayCall("step", r.array, <<>>, FALSE, r.commanded)

ArrayStep(dt, requested_current) == ArrayStepped(corvus_array_step(ctrl, dt, requested_current))

\* A pack's cell voltage moves to another level
ArraySetCell(i, cell_v) ==
    /\ scenario.build = "array"
    /\ rin.inputs < MaxArrayInputs
    /\ i \in 1..ctrl.num_packs
    /\ ctrl.controllers[i].pack.cell_voltage # cell_v
    /\ ctrl' = [ctrl EXCEPT !.controllers[i].pack =
                   pack_update_voltage([@ EXCEPT !.cell_voltage = cell_v])]
    /\ rin' = [rin EXCEPT !.inputs = @ + 1, !.last = "set_cell", !.requested = <<>>,
                          !.commanded = <<>>, !.latched_now = {}, !.carrying = {}]
    /\ UNCHANGED <<pack, prot, ctx, gpio, scan, soc, bal, s_last_ems_cmd, hal, scenario, ran,
                   nev>>

InitArray ==
    /\ FwInit
    /\ scenario = [build |-> "array", axis |-> "none"]
    /\ hal = HalInit(scenario.axis)
    /\ \E n \in 1..MaxPacks : \E ids \in IdLists(n), ty \in [1..n -> ArrayPackTypes] :
          ctrl = corvus_array_init(ids, [i \in 1..n |-> ty[i].soc],
                                   [i \in 1..n |-> ty[i].temperature])
    /\ rin = [calls |-> 0, inputs |-> 0, last |-> "init", requested |-> <<>>,
              for_charge |-> FALSE, commanded |-> <<>>, latched_now |-> {}, carrying |-> {}]

NextArray ==
    \/ ArrayUpdateBusVoltage
    \/ \E for_charge \in BOOLEAN : ArrayConnectFirst(for_charge)
    \/ ArrayConnectRemaining(TRUE)
    \/ ArrayDisconnectAll
    \/ ArrayResetAllFaults
    \/ \E dt \in ArrayDts, requested_current \in ArrayCurrents : ArrayStep(dt, requested_current)
    \/ \E i \in 1..MaxPacks, cell_v \in ArrayCellLevels : ArraySetCell(i, cell_v)

SpecArray == InitArray /\ [][NextArray]_vars


\* Both programs idle; Spec runs the firmware's cooperative loop
Init ==
    /\ FwInit
    /\ scenario \in [build : {"loop"}, axis : Axes]
    /\ hal = HalInit(scenario.axis)
    /\ ctrl = RefInit(scenario.axis)
    /\ rin = [inputs |-> 0, calls |-> 0, safe_since_latch |-> 0]

Harness ==
    \/ \E i \in Cells, mv \in OvLevels \cup UvLevels : SetCellVoltage(i, mv)
    \/ \E x \in Sensors, deci_c \in TempLevels : SetTemperature(x, deci_c)
    \/ \E ma \in CurrentLevels : SetPackCurrent(ma)
    \/ \E m \in Modules, bit \in {"ssa_ov", "ssa_uv", "ssa_sc", "ssb_ot"}, b \in BOOLEAN :
          SetSafetyStatus(m, bit, b)
    \/ \E b \in BOOLEAN : SetI2cFail(b)
    \/ \E b \in BOOLEAN : SetFeedback(b)

Next ==
    \/ MonitorRun
    \/ \E dt_ms \in ProtDts : ProtectionRun(dt_ms)
    \/ \E dt_ms \in ContDts : ContactorRun(dt_ms)
    \/ \E cmd \in Commands({pack.uptime_ms}) \cup {NullCmd} : StateRun(cmd)
    \/ AdvanceUptime(HarnessDt)
    \/ Harness

Spec == Init /\ [][Next]_vars

\* The same firmware under the tasks of bms_tasks.c
InitRtos ==
    /\ FwInit
    /\ scenario \in [build : {"rtos"}, axis : {"ems", "cmd"}]
    /\ hal = HalInit(scenario.axis)
    /\ ctrl = RefInit(scenario.axis)
    /\ rin = [inputs |-> 0, calls |-> 0, safe_since_latch |-> 0]

NextRtos ==
    \/ MonitorRun
    \/ \E dt_ms \in ProtDts : TaskProtection(dt_ms)
    \/ \E dt_ms \in ContDts : TaskContactor(dt_ms)
    \/ TaskState
    \/ \E cmd \in Commands(Ticks) : TaskCanRx(cmd)
    \/ Harness

SpecRtos == InitRtos /\ [][NextRtos]_vars

\* The tasks alone: commands arrive over CAN, the plant is at rest
NextTasks ==
    \/ MonitorRun
    \/ \E dt_ms \in ProtDts : TaskProtection(dt_ms)
    \/ \E dt_ms \in ContDts : TaskContactor(dt_ms)
    \/ TaskState
    \/ \E cmd \in Commands(Ticks) : TaskCanRx(cmd)

InitTasks == InitRtos /\ scenario.axis = "ems"

SpecTasks == InitTasks /\ [][NextTasks]_vars

(***************************************************************************)
(* Claims                                                                  *)
(***************************************************************************)

\* C1: a bms_contactor_run that starts with the fault latch set takes neither
\* OPEN -> PRE_CHARGE nor PRE_CHARGE -> CLOSING, whatever ran before it
\* (including a close request issued just before the fault latched).
C1_NoCloseWhileLatched ==
    [][pack.fault_latched =>
         /\ ~(ctx.state = "OPEN" /\ ctx'.state = "PRE_CHARGE")
         /\ ~(ctx.state = "PRE_CHARGE" /\ ctx'.state = "CLOSING")]_vars

\* C1, reached case: a close request is pending in OPEN when the latch is set
C1_PendingCloseLatched ==
    pack.fault_latched /\ ctx.state = "OPEN" /\ ctx.close_requested

\* C2: in every reachable state of the reference controller, a set fault
\* latch implies mode FAULT, open contactors and both current limits zero.
C2_LatchedIsFaultOpenZero ==
    ctrl.fault_latched =>
        /\ ctrl.mode = "FAULT"
        /\ ~ctrl.contactors_closed
        /\ ctrl.charge_current_limit = 0
        /\ ctrl.discharge_current_limit = 0

\* C2, reached case: the latch is set on a pack that had completed a
\* connection, and requests were made afterwards
C2_LatchedAfterConnection ==
    /\ ctrl.fault_latched
    /\ ctrl.precharge_timer >= BMS_PRECHARGE_DURATION
    /\ rin.calls = MaxRefCalls
    /\ ctrl.time_in_safe_state > 0

\* C3: at the end of every tick of the firmware loop (monitor, protection,
\* contactor and state have all run) in which the fault latch is set and the
\* state machine has put the pack in FAULT, both current limits are 0.
C3_LimitsZeroAtTickEnd ==
    (scenario.build = "loop" /\ ran = {} /\ pack.fault_latched /\ pack.mode = "FAULT")
        => (pack.charge_limit_ma = 0 /\ pack.discharge_limit_ma = 0)

\* C3, reached case: a tick ends with the latch set, the mode FAULT and the
\* monitor having run again after the fault was entered
C3_TickEndsLatchedInFault ==
    /\ scenario.build = "loop" /\ ran = {}
    /\ pack.fault_latched /\ pack.mode = "FAULT"
    /\ scan.s_scan_count = MaxScans

\* C4: a step clears the reference controller's fault latch only if it is a
\* manual reset and at least 60 s of uninterrupted safe state have been
\* observed since the fault latched.
C4_ClearedOnlyByResetAfterHold ==
    [][(ctrl.fault_latched /\ ~ctrl'.fault_latched) =>
          /\ ctrl' = corvus_controller_manual_fault_reset(ctrl).ctrl
          /\ rin'.calls = rin.calls + 1
          /\ rin.safe_since_latch >= BMS_FAULT_RESET_HOLD_TIME]_vars

\* C4, reached case: a fault is latched while the safe-state accumulator
\* already holds 60 s gathered before the latch
C4_LatchedWithEarlierSafeTime ==
    /\ ctrl.fault_latched
    /\ ctrl.time_in_safe_state >= BMS_FAULT_RESET_HOLD_TIME
    /\ rin.safe_since_latch = 0

\* C5: the firmware leaves mode FAULT only for READY, and only in a step that
\* starts with the pack latched and the safe-state accumulator at 60 s or
\* more (the step in which the state machine processes reset_faults).
C5_FaultLeftOnlyByAllowedReset ==
    [][(pack.mode = "FAULT" /\ pack'.mode # "FAULT") =>
          /\ pack'.mode = "READY"
          /\ pack.fault_latched
          /\ prot.safe_state_ms >= BMS_FAULT_RESET_HOLD_MS]_vars

\* C5, reached case: FAULT was entered by the EMS watchdog, with no latch
C5_FaultByEmsTimeout ==
    pack.mode = "FAULT" /\ pack.faults.ems_timeout /\ ~pack.fault_latched

\* The HW-safety conditions as the specification's table states them
HwOvAsserted(cells) == \E v \in cells : v >= 4300
HwUvAsserted(cells) == \E v \in cells : v > 0 /\ v <= 2700
HwOtAsserted(temps) == \E t \in temps : t >= 700

\* One HW timer over a protection run of dt: asserted, it gains dt and the
\* indication is set once it is at its delay; well clear of the condition, it
\* decays
HwTimerEvaluated(asserted, clear, before, after, dt, delay, indication) ==
    /\ asserted => (after = before + dt /\ (after >= delay => indication))
    /\ clear => after = Max(0, before - dt \div 2)

\* C6: a protection run that starts with a fault already latched still
\* evaluates the three HW-safety timers, and sets the HW indication when an
\* asserted HW condition has its timer at the delay (firmware: hw_ov, hw_uv,
\* hw_ot; reference controller: hw_fault_latched).
C6_HwSafetyRunsWhileLatched ==
    [][ran' = {"protection"} =>
         /\ (scenario.build = "fwunit" /\ pack.fault_latched) =>
               \E dt \in UnitDts :
                  LET cells == {pack.cell_mv[i] : i \in Cells}
                      temps == {pack.temp_deci_c[x] : x \in Sensors}
                  IN  /\ HwTimerEvaluated(HwOvAsserted(cells), ~HwOvAsserted(cells),
                                          prot.hw_ov_timer_ms, prot'.hw_ov_timer_ms,
                                          dt, 1000, pack'.faults.hw_ov)
                      /\ HwTimerEvaluated(HwUvAsserted(cells), ~HwUvAsserted(cells),
                                          prot.hw_uv_timer_ms, prot'.hw_uv_timer_ms,
                                          dt, 1000, pack'.faults.hw_uv)
                      /\ HwTimerEvaluated(HwOtAsserted(temps), ~HwOtAsserted(temps),
                                          prot.hw_ot_timer_ms, prot'.hw_ot_timer_ms,
                                          dt, 5000, pack'.faults.hw_ot)
         /\ (scenario.build = "refunit" /\ ctrl.fault_latched) =>
               \E dt \in UnitDts :
                  LET cells == {ctrl.pack.cell_voltage}
                      temps == {ctrl.pack.temperature}
                  IN  /\ HwTimerEvaluated(HwOvAsserted(cells), ~HwOvAsserted(cells),
                                          ctrl.hw_ov_timer, ctrl'.hw_ov_timer,
                                          dt, 1000, ctrl'.hw_fault_latched)
                      /\ HwTimerEvaluated(HwUvAsserted(cells), ctrl.pack.cell_voltage > 2700,
                                          ctrl.hw_uv_timer, ctrl'.hw_uv_timer,
                                          dt, 1000, ctrl'.hw_fault_latched)
                      /\ HwTimerEvaluated(HwOtAsserted(temps), ~HwOtAsserted(temps),
                                          ctrl.hw_ot_timer, ctrl'.hw_ot_timer,
                                          dt, 5000, ctrl'.hw_fault_latched)]_vars

\* C6, reached case: the firmware latched a software OV fault first and the
\* HW OV flag was set afterwards
C6_HwFlagAfterSwLatch ==
    scenario.build = "fwunit" /\ pack.faults.cell_ov /\ pack.faults.hw_ov

\* C7: at the end of every tick of the firmware loop, a set HW-safety flag
\* (hw_ov, hw_uv or hw_ot) comes with the fault latch set.
C7_HwFlagMeansLatched ==
    (scenario.build = "loop" /\ ran = {}
       /\ (pack.faults.hw_ov \/ pack.faults.hw_uv \/ pack.faults.hw_ot))
        => pack.fault_latched

\* C7, reached case: a tick ends with a HW flag that the monitor took from a
\* module's safety-status register
C7_HwFlagFromSafetyStatus ==
    /\ scenario.build = "loop" /\ ran = {}
    /\ scan.s_scan_count > 0
    /\ \E m \in Modules :
          \/ hal.ssa_ov[m] /\ pack.faults.hw_ov
          \/ hal.ssa_uv[m] /\ pack.faults.hw_uv
          \/ hal.ssb_ot[m] /\ pack.faults.hw_ot

\* The leaky-integrator rule for one timer over a run of dt
LeakyRule(asserted, before, after, dt) ==
    after = IF asserted THEN before + dt ELSE Max(0, before - dt \div 2)

\* C8: over every protection run in which no fault is or becomes latched (the
\* SW pass is evaluated in full), each SW fault timer and each warning timer
\* of the firmware and of the reference controller moves by the leaky rule
\* for its own condition, and no fault timer is left at or above its delay.
C8_TimersFollowLeakyRule ==
    [][ran' = {"protection"} =>
         /\ (scenario.build = "fwunit" /\ ~pack.fault_latched /\ ~pack'.fault_latched) =>
               \E dt \in UnitDts :
                  /\ \A i \in Cells :
                        /\ LeakyRule(pack.cell_mv[i] >= 4225,
                                     prot.ov_timer_ms[i], prot'.ov_timer_ms[i], dt)
                        /\ LeakyRule(pack.cell_mv[i] > 0 /\ pack.cell_mv[i] <= 3000,
                                     prot.uv_timer_ms[i], prot'.uv_timer_ms[i], dt)
                        /\ prot'.ov_timer_ms[i] < 5000 /\ prot'.uv_timer_ms[i] < 5000
                  /\ \A x \in Sensors :
                        /\ LeakyRule(pack.temp_deci_c[x] >= 650,
                                     prot.ot_timer_ms[x], prot'.ot_timer_ms[x], dt)
                        /\ prot'.ot_timer_ms[x] < 5000
                  /\ LeakyRule(/\ pack.min_temp_deci_c < 0
                               /\ pack.pack_current_ma > temp_limit(pack.max_temp_deci_c).c,
                               prot.oc_charge_timer_ms, prot'.oc_charge_timer_ms, dt)
                  /\ prot'.oc_charge_timer_ms < 5000
                  /\ LeakyRule(\E i \in Cells : pack.cell_mv[i] >= 4210,
                               prot.warn_ov_timer_ms, prot'.warn_ov_timer_ms, dt)
                  /\ LeakyRule(\E x \in Sensors : pack.temp_deci_c[x] >= 600,
                               prot.warn_ot_timer_ms, prot'.warn_ot_timer_ms, dt)
         /\ (scenario.build = "refunit" /\ ~ctrl.fault_latched /\ ~ctrl'.fault_latched) =>
               \E dt \in UnitDts :
                  /\ LeakyRule(ctrl.pack.cell_voltage >= 4225,
                               ctrl.ov_fault_timer, ctrl'.ov_fault_timer, dt)
                  /\ LeakyRule(ctrl.pack.temperature >= 650,
                               ctrl.ot_fault_timer, ctrl'.ot_fault_timer, dt)
                  /\ ctrl'.ov_fault_timer < 5000 /\ ctrl'.ot_fault_timer < 5000
                  /\ LeakyRule(ctrl.pack.cell_voltage >= 4210,
                               ctrl.ov_warn_timer, ctrl'.ov_warn_timer, dt)
                  /\ LeakyRule(ctrl.pack.temperature >= 600,
                               ctrl.ot_warn_timer, ctrl'.ot_warn_timer, dt)]_vars

\* C8, reached case: a firmware protection run at sub-zero temperature with
\* a charge current above the derated limit has left the pack unlatched
C8_ColdChargeRun ==
    /\ scenario.build = "fwunit" /\ ran = {"protection"}
    /\ pack.min_temp_deci_c < 0 /\ pack.pack_current_ma > 0
    /\ prot.oc_charge_timer_ms > 0
    /\ ~pack.fault_latched

\* C9: a fault is latched only if its condition has been asserted, over the
\* protection runs so far, for a total of at least its delay: 1 s for HW OV
\* and HW UV, 5 s for HW OT and for each SW fault.
C9_NoFaultBeforeDelay ==
    /\ scenario.build = "fwunit" =>
          /\ pack.faults.hw_ov => nev.asserted["hw_ov"] >= 1000
          /\ pack.faults.hw_uv => nev.asserted["hw_uv"] >= 1000
          /\ pack.faults.hw_ot => nev.asserted["hw_ot"] >= 5000
          /\ pack.faults.cell_ov => nev.asserted["ov"] >= 5000
          /\ pack.faults.cell_uv => nev.asserted["uv"] >= 5000
          /\ pack.faults.cell_ot => nev.asserted["ot"] >= 5000
          /\ pack.faults.oc_charge => nev.asserted["oc_charge"] >= 5000
          /\ pack.faults.oc_discharge => nev.asserted["oc_discharge"] >= 5000
          /\ pack.fault_latched =>
                \E k \in FaultKinds :
                   nev.asserted[k] >= (IF k \in {"hw_ov", "hw_uv"} THEN 1000 ELSE 5000)
    /\ scenario.build = "refunit" =>
          /\ ctrl.hw_fault_latched =>
                \/ nev.asserted["hw_ov"] >= 1000
                \/ nev.asserted["hw_uv"] >= 1000
                \/ nev.asserted["hw_ot"] >= 5000
          /\ ctrl.fault_latched =>
                \E k \in FaultKinds \ {"oc_discharge"} :
                   nev.asserted[k] >= (IF k \in {"hw_ov", "hw_uv"} THEN 1000 ELSE 5000)

\* C9, reached case: the firmware's charge-overcurrent fault is latched
C9_OcChargeLatched ==
    scenario.build = "fwunit" /\ pack.faults.oc_charge /\ pack.fault_latched

\* C10: with one cell voltage alternating between 2 s at or above the SW
\* OV-fault threshold and 2 s below it, (a) an OV fault is latched by the time
\* ten cycles are complete (firmware: cell_ov or hw_ov with the latch;
\* reference controller: the latch), and (b) while nothing is latched the OV
\* fault timer at the end of each cycle holds 1 s per completed cycle.
C10_OscillationLatchesWithinTenCycles ==
    /\ rin.cycles >= TenCycles =>
          /\ scenario.build = "fwosc" =>
                pack.fault_latched /\ (pack.faults.cell_ov \/ pack.faults.hw_ov)
          /\ scenario.build = "refosc" => ctrl.fault_latched
    /\ (rin.phase = "low" /\ rin.elapsed >= OscPhaseMs) =>
          /\ (scenario.build = "fwosc" /\ ~pack.fault_latched) =>
                prot.ov_timer_ms[1] = rin.cycles * (OscPhaseMs \div 2)
          /\ (scenario.build = "refosc" /\ ~ctrl.fault_latched) =>
                ctrl.ov_fault_timer = rin.cycles * (OscPhaseMs \div 2)

\* C10, reached case: ten cycles just below / at the SW threshold are
\* complete in the firmware, and the SW OV fault is latched
C10_TenCyclesDone ==
    /\ scenario.build = "fwosc"
    /\ rin.cycles = TenCycles
    /\ rin.high = BMS_SE_OV_FAULT_MV /\ rin.low = JustBelowOvMv
    /\ pack.faults.cell_ov

\* C11: over every protection run that starts unlatched, the charge
\* overcurrent fault timer advances only when the coldest sensor is below
\* 0 C and the charge current exceeds the temperature-derated charge limit,
\* and then by dt; the charge overcurrent fault is raised only in such a run
\* and after that condition has been asserted for 5 s in total.
C11_OcChargeTimerOwnCondition ==
    [][ran' = {"protection"} =>
         /\ (scenario.build = "fwunit" /\ ~pack.fault_latched) =>
               LET cond == /\ pack.min_temp_deci_c < 0
                           /\ pack.pack_current_ma > temp_limit(pack.max_temp_deci_c).c
               IN  /\ prot'.oc_charge_timer_ms > prot.oc_charge_timer_ms =>
                         /\ cond
                         /\ \E dt \in UnitDts :
                               prot'.oc_charge_timer_ms = prot.oc_charge_timer_ms + dt
                   /\ (pack'.faults.oc_charge /\ ~pack.faults.oc_charge) =>
                         cond /\ nev'.asserted["oc_charge"] >= BMS_SE_FAULT_DELAY_MS
         /\ (scenario.build = "refunit" /\ ~ctrl.fault_latched) =>
               LET cond == /\ ctrl.pack.temperature < 0
                           /\ ctrl.pack.current >
                                 corvus_temp_current_limit(ctrl.pack.temperature,
                                                           ctrl.pack.capacity_ah).charge
               IN  /\ ctrl'.oc_fault_timer > ctrl.oc_fault_timer =>
                         /\ cond
                         /\ \E dt \in UnitDts :
                               ctrl'.oc_fault_timer = ctrl.oc_fault_timer + dt
                   /\ (ctrl'.fault_latched /\ ctrl'.oc_fault_timer >= 5000) =>
                         cond /\ nev'.asserted["oc_charge"] >= 5000]_vars

\* C11, reached case: a firmware protection run with every sensor at or above
\* 0 C has left the charge overcurrent fault timer above zero, the fault
\* condition never having been asserted
C11_TimerAdvancedAboveZero ==
    /\ scenario.build = "fwunit" /\ ran = {"protection"}
    /\ pack.min_temp_deci_c >= 0
    /\ prot.oc_charge_timer_ms > 0
    /\ nev.asserted["oc_charge"] = 0
    /\ ~pack.fault_latched

\* C12: over every protection run that starts with the fault latched, the
\* safe-state accumulator advances by dt when every cell voltage is strictly
\* between the SW UV and SW OV fault thresholds and every sensor is strictly
\* below the SW OT fault threshold, and is reset to 0 otherwise.
C12_SafeStateOnlyInsideWindow ==
    [][ran' = {"protection"} =>
         /\ (scenario.build = "fwunit" /\ pack.fault_latched) =>
               LET safe == /\ \A i \in Cells :
                                 /\ pack.cell_mv[i] > BMS_SE_UV_FAULT_MV
                                 /\ pack.cell_mv[i] < BMS_SE_OV_FAULT_MV
                           /\ \A x \in Sensors :
                                 pack.temp_deci_c[x] < BMS_SE_OT_FAULT_DECI_C
               IN  IF safe
                   THEN \E dt \in UnitDts : prot'.safe_state_ms = prot.safe_state_ms + dt
                   ELSE prot'.safe_state_ms = 0
         /\ (scenario.build = "refunit" /\ ctrl.fault_latched) =>
               LET safe == /\ ctrl.pack.cell_voltage > BMS_SE_UNDER_VOLTAGE_FAULT
                           /\ ctrl.pack.cell_voltage < BMS_SE_OVER_VOLTAGE_FAULT
                           /\ ctrl.pack.temperature < BMS_SE_OVER_TEMP_FAULT
               IN  IF safe
                   THEN \E dt \in UnitDts :
                           ctrl'.time_in_safe_state = ctrl.time_in_safe_state + dt
                   ELSE ctrl'.time_in_safe_state = 0]_vars

\* C12, reached case: a latched firmware run with a cell reading 0 mV has
\* left the safe-state accumulator above zero
C12_SafeStateWithZeroReading ==
    /\ scenario.build = "fwunit" /\ ran = {"protection"}
    /\ pack.fault_latched
    /\ \E i \in Cells : pack.cell_mv[i] = 0
    /\ prot.safe_state_ms > 0

\* C13: in every state of the firmware, bms_protection_can_reset returns
\* true exactly when the pack is fault-latched and the safe-state accumulator
\* is at least 60 s.
C13_CanResetIffLatchedAndHeld ==
    bms_protection_can_reset(prot, pack) <=>
        (pack.fault_latched /\ prot.safe_state_ms >= BMS_FAULT_RESET_HOLD_MS)

\* C13, reached case: the pack is in FAULT without the latch (no held safe
\* state), where the state machine consults bms_protection_can_reset
C13_FaultModeUnlatched ==
    /\ pack.mode = "FAULT" /\ ~pack.fault_latched
    /\ prot.safe_state_ms < BMS_FAULT_RESET_HOLD_MS
    /\ bms_protection_can_reset(prot, pack)

\* C14: a reset attempt on the reference controller made while the fault is
\* latched and the safe-state accumulator is below 60 s is denied and leaves
\* every field of the controller unchanged.
C14_DeniedResetChangesNothing ==
    [][(/\ scenario.build = "refunit" /\ ran' = {"reset"}
        /\ ctrl.fault_latched
        /\ ctrl.time_in_safe_state < BMS_FAULT_RESET_HOLD_TIME) =>
          /\ ~corvus_controller_manual_fault_reset(ctrl).ret
          /\ ctrl' = ctrl]_vars

\* C14, reached case: a reset has been denied on a latched controller whose
\* pack is outside the safe window
C14_ResetDeniedOutsideWindow ==
    /\ scenario.build = "refunit" /\ ran = {"reset"}
    /\ ctrl.fault_latched
    /\ ctrl.pack.cell_voltage >= BMS_SE_OVER_VOLTAGE_FAULT
    /\ ctrl.time_in_safe_state = 0

\* C15: a step of the reference controller that clears the fault latch (a
\* successful reset) also clears the HW latch and the fault flag, leaves every
\* timer of the controller at zero (SW fault, HW, overcurrent, warning,
\* warning-hold, pre-charge and safe-state timers) and the mode at READY.
C15_ResetZeroesEverything ==
    [][(ctrl.fault_latched /\ ~ctrl'.fault_latched) =>
          /\ ~ctrl'.hw_fault_latched /\ ~ctrl'.has_fault
          /\ ctrl'.mode = "READY"
          /\ \A f \in {"ov_fault_timer", "uv_fault_timer", "ot_fault_timer",
                       "hw_ov_timer", "hw_uv_timer", "hw_ot_timer",
                       "oc_fault_timer", "oc_warn_timer",
                       "ov_warn_timer", "uv_warn_timer", "ot_warn_timer",
                       "warning_active_time", "precharge_timer",
                       "time_in_safe_state"} : ctrl'[f] = 0]_vars

\* C15, reached case: the controller is READY and unlatched after a reset
\* (fault and safe-state timers at zero), with the pre-charge timer of the
\* connection that faulted still above zero
C15_ReadyWithPrechargeTime ==
    /\ scenario.build = "ref"
    /\ ctrl.mode = "READY" /\ ~ctrl.fault_latched /\ ~ctrl.has_fault
    /\ ctrl.ov_fault_timer = 0 /\ ctrl.uv_fault_timer = 0 /\ ctrl.ot_fault_timer = 0
    /\ ctrl.oc_fault_timer = 0
    /\ ctrl.time_in_safe_state = 0
    /\ RefSafe(ctrl)
    /\ ctrl.precharge_timer > 0

\* C16: every state-machine run of the firmware that starts with the fault
\* latch set and the mode other than FAULT ends with mode = FAULT, whatever
\* EMS command (or none) it is given.
C16_LatchForcesFault ==
    [][(/\ scenario.build = "stunit" /\ ran' = {"state"}
        /\ pack.fault_latched /\ pack.mode # "FAULT") =>
          /\ pack'.mode = "FAULT"
          /\ \A ty \in EmsCmdTypes \cup {"NULL"} :
                bms_state_run(pack, ctx, prot, [NullCmd EXCEPT !.type = ty]).pack.mode
                   = "FAULT"]_vars

\* C16, reached case: a run has taken the latched pack to FAULT and asked
\* the contactors to open
C16_FaultEnteredByRun ==
    /\ scenario.build = "stunit" /\ ran = {"state"}
    /\ pack.fault_latched /\ pack.mode = "FAULT"
    /\ ctx.open_requested

\* Steps of the loop of main.c: its state-machine call and its contactor call
LoopStateRunStep == ran = {"monitor", "protection", "contactor"} /\ ran' = {}
LoopContactorRunStep ==
    ran = {"monitor", "protection"} /\ ran' = {"monitor", "protection", "contactor"}

WatchdogExpired ==
    GtU32(SubU32(pack.uptime_ms, pack.last_ems_msg_ms), BMS_EMS_WATCHDOG_MS)

\* C18 (as stated): a state-machine run that starts in CONNECTED or CONNECTING
\* with more than 5 s elapsed since the last EMS message sets ems_timeout,
\* enters FAULT and requests contactor open.
C18_WatchdogSetsEmsTimeout ==
    [][(/\ scenario.build = "stunit" /\ ran' = {"state"}
        /\ pack.mode \in {"CONNECTED", "CONNECTING"}
        /\ WatchdogExpired) =>
          /\ pack'.faults.ems_timeout
          /\ pack'.mode = "FAULT"
          /\ ctx.state \in {"PRE_CHARGE", "CLOSING", "CLOSED"} => ctx'.open_requested]_vars

\* C18 (amended): the same, for a run that starts with the fault latch clear;
\* a run that starts latched enters FAULT and requests open as well, but
\* leaves ems_timeout as it was.
C18_WatchdogSetsEmsTimeoutUnlatched ==
    [][(/\ scenario.build = "stunit" /\ ran' = {"state"}
        /\ pack.mode \in {"CONNECTED", "CONNECTING"}
        /\ WatchdogExpired) =>
          /\ pack'.mode = "FAULT"
          /\ pack'.charge_limit_ma = 0 /\ pack'.discharge_limit_ma = 0
          /\ ctx.state \in {"PRE_CHARGE", "CLOSING", "CLOSED"} => ctx'.open_requested
          /\ pack'.faults.ems_timeout = (~pack.fault_latched \/ pack.faults.ems_timeout)]_vars

\* C18, reached case: the watchdog has put the unlatched pack in FAULT with
\* ems_timeout set and the open request made
C18_EmsTimeoutFault ==
    /\ scenario.build = "stunit" /\ ran = {"state"}
    /\ pack.mode = "FAULT" /\ ~pack.fault_latched
    /\ pack.faults.ems_timeout
    /\ ctx.open_requested

\* C19: once the contactor FSM is WELDED it stays WELDED, and no step takes
\* the pack mode (back) to READY, CONNECTING or CONNECTED; a pack with welded
\* contactors is in none of these modes once the state machine has seen it.
C19_WeldedIsTerminal ==
    [][ctx.state = "WELDED" =>
         /\ ctx'.state = "WELDED"
         /\ pack'.mode \in {"READY", "CONNECTING", "CONNECTED"} => pack'.mode = pack.mode]_vars

\* C19, reached case: welded contactors, the weld latched and the pack in FAULT
\* with the safe-state hold complete
C19_WeldedFaultHeld ==
    /\ ctx.state = "WELDED"
    /\ pack.mode = "FAULT" /\ pack.fault_latched
    /\ prot.safe_state_ms >= BMS_FAULT_RESET_HOLD_MS

\* C20: the main positive output goes on only in a contactor run that starts
\* in PRE_CHARGE and finds the pack voltage at or above 95 % of the DC-bus
\* voltage of the time the close was requested (the bus voltage does not
\* change within a run of the model); as long as the FSM is in PRE_CHARGE
\* exactly the pre-charge relay and the main negative are on.
C20_MainPositiveOnlyAtBusTarget ==
    [][/\ (gpio'.pos /\ ~gpio.pos) =>
            /\ LoopContactorRunStep
            /\ ctx.state = "PRE_CHARGE"
            /\ 100 * pack.pack_voltage_mv >= BMS_PRECHARGE_VOLT_PCT * hal.adc_bus_mv
       /\ ctx'.state = "PRE_CHARGE" =>
            gpio' = [pos |-> FALSE, neg |-> TRUE, precharge |-> TRUE]]_vars

\* The same against the target the contactor FSM holds, as the code compares
C20_MainPositiveOnlyAtRecordedTarget ==
    [][/\ (gpio'.pos /\ ~gpio.pos) =>
            /\ LoopContactorRunStep
            /\ ctx.state = "PRE_CHARGE"
            /\ pack.pack_voltage_mv >=
                  (ctx.bus_voltage_mv * BMS_PRECHARGE_VOLT_PCT) \div 100
       /\ ctx'.state = "PRE_CHARGE" =>
            gpio' = [pos |-> FALSE, neg |-> TRUE, precharge |-> TRUE]]_vars

\* C20, reached case: the pre-charge has ended and the main positive is on,
\* with the pack below 95 % of the bus voltage
C20_MainPositiveBelowBusTarget ==
    /\ scenario.build = "loop"
    /\ ctx.state = "CLOSING"
    /\ gpio = [pos |-> TRUE, neg |-> TRUE, precharge |-> FALSE]
    /\ 100 * pack.pack_voltage_mv < BMS_PRECHARGE_VOLT_PCT * hal.adc_bus_mv

\* C21: the contactor FSM is never left in a transient state with its timer at
\* or beyond the timeout: below 5 s in PRE_CHARGE, below 100 ms in CLOSING,
\* below 200 ms in OPENING.  The timer is the time spent in the state: it is 0
\* on entry and every contactor run that stays adds its dt.  A run that leaves
\* PRE_CHARGE goes to CLOSING, OPENING or OPEN, one that leaves CLOSING to
\* CLOSED, OPENING or OPEN, one that leaves OPENING to OPEN or WELDED, and
\* OPENING and OPEN are entered with all outputs off.
C21_TransientStatesTimeOut ==
    [][/\ ctx'.state = "PRE_CHARGE" => ctx'.state_timer_ms < BMS_PRECHARGE_TIMEOUT_MS
       /\ ctx'.state = "CLOSING" => ctx'.state_timer_ms < BMS_CONTACTOR_CLOSE_MS
       /\ ctx'.state = "OPENING" => ctx'.state_timer_ms < BMS_WELD_DETECT_MS
       /\ (ctx'.state \in TimedStates /\ ctx'.state # ctx.state) => ctx'.state_timer_ms = 0
       /\ (LoopContactorRunStep /\ ctx.state \in TimedStates /\ ctx'.state = ctx.state) =>
             ctx'.state_timer_ms >= ctx.state_timer_ms + BMS_CONTACTOR_PERIOD_MS
       /\ (ctx.state = "PRE_CHARGE" /\ ctx'.state # ctx.state) =>
             ctx'.state \in {"CLOSING", "OPENING", "OPEN"}
       /\ (ctx.state = "CLOSING" /\ ctx'.state # ctx.state) =>
             ctx'.state \in {"CLOSED", "OPENING", "OPEN"}
       /\ (ctx.state = "OPENING" /\ ctx'.state # ctx.state) =>
             ctx'.state \in {"OPEN", "WELDED"}
       /\ (ctx.state \in TimedStates /\ ctx'.state \in {"OPEN", "OPENING"}) =>
             gpio' = all_contactors_off]_vars

\* C21, reached case: a connection attempt has timed out (in PRE_CHARGE or in
\* CLOSING) and the FSM is back in OPEN with the outputs off
C21_ConnectTimedOut ==
    /\ scenario.build = "loop"
    /\ ran = {"monitor", "protection", "contactor"}
    /\ pack.mode = "CONNECTING" /\ ~pack.fault_latched
    /\ ctx.state = "OPEN" /\ ~ctx.close_requested /\ ctx.bus_voltage_mv > 0
    /\ gpio = all_contactors_off

\* bms_config.h: BMS_VOLTAGE_MATCH_MV, 26.4 V; no firmware code refers to it
BMS_VOLTAGE_MATCH_MV == 1200 * BMS_NUM_MODULES

\* C22: a connect command given to a READY pack whose voltage differs from the
\* DC-bus voltage by more than 26.4 V is rejected: no state-machine run that
\* starts so takes the mode to CONNECTING or changes the contactor FSM.
C22_ConnectRejectedOnMismatch ==
    [][(/\ LoopStateRunStep
        /\ pack.mode = "READY"
        /\ Abs(pack.pack_voltage_mv - hal.adc_bus_mv) > BMS_VOLTAGE_MATCH_MV) =>
          /\ pack'.mode # "CONNECTING"
          /\ ctx' = ctx]_vars

\* The same for the reference controller: whatever bus voltage farther than
\* 26.4 V from the pack voltage a READY controller is asked to connect at, the
\* request returns false and changes nothing
C22_ReferenceRejectsMismatch ==
    (scenario.build = "ref" /\ ctrl.mode = "READY") =>
       \A bus_voltage \in {ctrl.pack.pack_voltage + BusMismatchMv,
                            ctrl.pack.pack_voltage - BusMismatchMv,
                            ctrl.pack.pack_voltage + BMS_VOLTAGE_MATCH_MV + 1} :
          /\ ~corvus_controller_request_connect(ctrl, bus_voltage).ret
          /\ corvus_controller_request_connect(ctrl, bus_voltage).ctrl = ctrl

\* C22, reached case: the firmware is CONNECTING with the close requested
\* although the bus lies more than 26.4 V from the pack
C22_ConnectingDespiteMismatch ==
    /\ scenario.build = "loop"
    /\ pack.mode = "CONNECTING" /\ ctx.close_requested
    /\ Abs(pack.pack_voltage_mv - hal.adc_bus_mv) > BMS_VOLTAGE_MATCH_MV

(***************************************************************************)
(* Reference array and its current solver                                  *)
(***************************************************************************)
\* C23: after every array step each pack whose controller is fault-latched,
\* one that latched during that step included, was handed a current of
\* exactly 0 by the step and carries pack current 0.
C23_LatchedPackCommandedZero ==
    (scenario.build = "array" /\ rin.last = "step") =>
       \A i \in 1..ctrl.num_packs :
          ctrl.controllers[i].fault_latched =>
             /\ rin.commanded[i] = 0
             /\ ctrl.controllers[i].pack.current = 0

\* C23, reached case: a pack that carried current latched its fault during
\* the step just made; it is in FAULT with contactors open and no current
C23_LatchedWhileCarrying ==
    /\ scenario.build = "array" /\ rin.last = "step"
    /\ \E i \in rin.latched_now \cap rin.carrying :
          /\ ctrl.controllers[i].fault_latched /\ ctrl.controllers[i].mode = "FAULT"
          /\ ~ctrl.controllers[i].contactors_closed
          /\ rin.commanded[i] = 0 /\ ctrl.controllers[i].pack.current = 0

SolveReturned == scenario.build = "solve" /\ rin.s.exit # "loop"

\* C24: on return from the solver, by whichever exit, the current assigned to
\* every connected pack k lies in [-discharge_limit_k, charge_limit_k], in
\* Kirchhoff mode and in equalization mode.
C24_AssignedCurrentsWithinLimits ==
    SolveReturned =>
       \A k \in 1..Len(rin.s.pack_currents) :
          /\ ~FracGt(rin.s.pack_currents[k], connected(ctrl)[k].charge_current_limit)
          /\ ~FracGt(FracNeg(rin.s.pack_currents[k]), connected(ctrl)[k].discharge_current_limit)

\* C24, reached case: a Kirchhoff solution accepted after clamping, with one
\* pack held at a limit and another carrying an unclamped discharge current
C24_AcceptedAfterClamp ==
    /\ SolveReturned /\ rin.s.exit = "accepted" /\ ~rin.is_equalization
    /\ \E k \in 1..Len(rin.s.active) : rin.s.is_clamped[k] /\ rin.s.pack_currents[k].n # 0
    /\ \E k \in 1..Len(rin.s.active) : ~rin.s.is_clamped[k] /\ rin.s.pack_currents[k].n < 0

\* a step that makes one pass of the clamping loop
SolvePassStep == scenario.build = "solve" /\ rin'.passes = rin.passes + 1
NewlyClamped(k) == rin.s.active[k] /\ ~rin.s.is_clamped[k] /\ rin'.s.is_clamped[k]

\* C25: for n connected packs the clamping loop makes at most n passes; every
\* pass that does not accept the solution clamps at least one pack that was
\* active before it, and a clamped pack is never active again.
C25_EveryPassAcceptsOrClamps ==
    [][SolvePassStep =>
          /\ rin'.passes <= Len(connected(ctrl))
          /\ rin'.s.exit # "accepted" => \E k \in 1..Len(rin.s.active) : NewlyClamped(k)
          /\ \A k \in 1..Len(rin.s.active) :
                rin.s.is_clamped[k] => rin'.s.is_clamped[k] /\ ~rin'.s.active[k]]_vars

\* C25 as the code has it: the same, except that a pass entered with no active
\* pack left ends the loop at the conductance test and clamps nothing.
C25_EveryContinuingPassClamps ==
    [][SolvePassStep =>
          /\ rin'.passes <= Len(connected(ctrl))
          /\ (rin'.s.exit # "accepted" /\ \E k \in 1..Len(rin.s.active) : rin.s.active[k]) =>
                \E k \in 1..Len(rin.s.active) : NewlyClamped(k)
          /\ \A k \in 1..Len(rin.s.active) :
                rin.s.is_clamped[k] => rin'.s.is_clamped[k] /\ ~rin'.s.active[k]]_vars

\* C25, reached case: three packs, two passes that each clamped, and the third
\* pass accepting with the last pack still active
C25_AcceptedInLastPass ==
    /\ SolveReturned /\ rin.s.exit = "accepted"
    /\ Len(rin.s.active) = MaxPacks /\ rin.passes = MaxPacks
    /\ Cardinality({k \in 1..Len(rin.s.active) : rin.s.is_clamped[k]}) = MaxPacks - 1

\* The sum of a tuple of fractions as whole + n / d with 0 <= n
FloorDiv(a, b) == IF a >= 0 THEN a \div b ELSE -((-a + b - 1) \div b)
FracSum(f) ==
    LET len == Len(f)
        d == LcmOf(TupleOf([k \in 1..len |-> f[k].d], len), len)
    IN  [whole |-> SumOver([k \in 1..len |-> FloorDiv(f[k].n, f[k].d)], len),
         n |-> SumOver([k \in 1..len |->
                          (f[k].n - FloorDiv(f[k].n, f[k].d) * f[k].d) * (d \div f[k].d)], len),
         d |-> d]
\* | sum - expected | <= tol, for integers expected and tol (mA)
SumWithin(sum, expected, tol) == Abs((sum.whole - expected) * sum.d + sum.n) <= tol * sum.d
\* the target clamped to the array envelope
TargetInEnvelope ==
    IF rin.target > 0 THEN Min(rin.target, ctrl.array_charge_limit)
    ELSE IF rin.target < 0 THEN Max(rin.target, -ctrl.array_discharge_limit)
    ELSE 0

\* C26: a solution accepted with at least one unclamped pack has pack currents
\* that sum to the target clamped to the array envelope, within 1 % of the
\* target, in Kirchhoff mode, and to zero, within 1 A, in equalization mode.
C26_AcceptedCurrentsSumToTarget ==
    (/\ SolveReturned /\ rin.s.exit = "accepted"
     /\ \E k \in 1..Len(rin.s.active) : ~rin.s.is_clamped[k]) =>
       IF rin.is_equalization
       THEN SumWithin(FracSum(rin.s.pack_currents), 0, 1000)
       ELSE SumWithin(FracSum(rin.s.pack_currents), TargetInEnvelope,
                      Abs(rin.target) \div BMS_CURRENT_LIMIT_TOLERANCE_DIV)

\* C26, reached case: a Kirchhoff request beyond the array envelope, accepted
\* at the envelope with one pack clamped and another unclamped
C26_ClampedTargetDistributed ==
    /\ SolveReturned /\ rin.s.exit = "accepted" /\ ~rin.is_equalization
    /\ TargetInEnvelope # rin.target /\ TargetInEnvelope # 0
    /\ \E k \in 1..Len(rin.s.active) : rin.s.is_clamped[k]
    /\ \E k \in 1..Len(rin.s.active) : ~rin.s.is_clamped[k]

\* C27: an id list with two equal pack ids is rejected, so no array exists
\* whose controllers share a pack id.
C27_ArrayPackIdsDistinct ==
    scenario.build = "array" =>
       \A i \in 1..ctrl.num_packs : \A j \in 1..ctrl.num_packs :
          i # j => ctrl.controllers[i].pack.pack_id # ctrl.controllers[j].pack.pack_id

\* C27, reached case: an array built from a list with a repeated id is in
\* use, one of its packs having been asked to connect
C27_DuplicateIdArrayInUse ==
    /\ scenario.build = "array"
    /\ ~corvus_validate_unique_pack_ids(
           [i \in 1..ctrl.num_packs |-> ctrl.controllers[i].pack.pack_id], ctrl.num_packs)
    /\ rin.last = "connect_first" /\ rin.requested # <<>>

\* a step that is a call of connect_first
ConnectFirstStep ==
    scenario.build = "array" /\ rin'.calls = rin.calls + 1 /\ rin'.last = "connect_first"

\* C28: connect_first issues a connect request to at most one pack, and only
\* when no pack is CONNECTED or CONNECTING; the pack asked is a READY pack with
\* the lowest SoC of the READY packs for charge, the highest for discharge.
\* No other pack is touched.
C28_ConnectFirstPicksBestReady ==
    [][ConnectFirstStep =>
          /\ Len(rin'.requested) <= 1
          /\ rin'.requested # <<>> => ~any_in(ctrl, {"CONNECTED", "CONNECTING"})
          /\ \A b \in 1..ctrl.num_packs :
                IF rin'.requested = <<b>>
                THEN /\ ctrl.controllers[b].mode = "READY"
                     /\ \A j \in InMode(ctrl, "READY") :
                           IF rin'.for_charge
                           THEN ctrl.controllers[b].pack.soc <= ctrl.controllers[j].pack.soc
                           ELSE ctrl.controllers[b].pack.soc >= ctrl.controllers[j].pack.soc
                     /\ ctrl'.controllers[b] =
                           corvus_controller_request_connect(ctrl.controllers[b],
                                                             ctrl.bus_voltage).ctrl
                ELSE ctrl'.controllers[b] = ctrl.controllers[b]]_vars

\* C28, reached case: connect_first for charge passed over an earlier READY
\* pack of higher SoC and the pack it asked is now CONNECTING
C28_LaterPackOfLowerSocAsked ==
    /\ scenario.build = "array" /\ rin.last = "connect_first" /\ rin.for_charge
    /\ \E b \in 1..ctrl.num_packs :
          /\ rin.requested = <<b>>
          /\ ctrl.controllers[b].mode = "CONNECTING"
          /\ \E j \in 1..(b - 1) :
                /\ ctrl.controllers[j].mode = "READY"
                /\ ctrl.controllers[j].pack.soc > ctrl.controllers[b].pack.soc

(***************************************************************************)
(* Firmware tasks: hand-off of an EMS command from CAN RX to the state     *)
(* task.  src/firmware/rtos/bms_tasks.c:74-112                              *)
(***************************************************************************)

\* A step of task_can_rx that stored a decoded frame in s_last_ems_cmd.
CanRxStored == nev'.cmds = nev.cmds + 1

\* C29: every EMS command accepted by CAN RX is processed by exactly one
\* run of the state task: when CAN RX stores a command, the slot
\* s_last_ems_cmd holds no command that the state task has still to consume,
\* so no accepted command is lost or overwritten, in every interleaving of
\* the two tasks.
C29_AcceptedCommandNeverOverwritten ==
    [][CanRxStored => s_last_ems_cmd.type = "NONE"]_vars

\* C29: the slot holds a command that the state task has not consumed and
\* CAN RX can still receive a frame, whose store replaces it.
C29_PendingCommandBeforeNextFrame ==
    /\ scenario.build = "rtos"
    /\ s_last_ems_cmd.type # "NONE"
    /\ "state" \notin ran
    /\ nev.cmds < MaxCommands

(***************************************************************************)
(* Firmware: sign of the current envelopes of the pack.                    *)
(* src/firmware/src/bms_state.c:155-182                                     *)
(***************************************************************************)

\* C30: in every reachable state both current envelopes of the pack, the
\* charge limit and the discharge limit, are non-negative, also after an
\* EMS set_limits command carrying any signed 16-bit limit values.
C30_EnvelopesNonNegative ==
    /\ pack.charge_limit_ma >= 0
    /\ pack.discharge_limit_ma >= 0

\* C30: a connected pack whose charge envelope is negative.
C30_ConnectedWithNegativeEnvelope ==
    /\ pack.mode = "CONNECTED"
    /\ pack.charge_limit_ma < 0

(***************************************************************************)
(* Warnings: hysteresis of the OV, UV and OT warnings.                     *)
(* src/c/corvus_bms.c:435-503, src/firmware/src/bms_protection.c:288-377   *)
(***************************************************************************)

\* Reference controller: a warning timer that reached its 5 s delay belongs
\* to a warning that was reported, and it is zeroed only by a step below the
\* clear level; the input has not left the clear level since.
RefWarnNotBelowClear(c) ==
    \/ c.ov_warn_timer >= 5000 /\ c.pack.cell_voltage >= BMS_SE_OV_WARN_CLEAR
    \/ c.uv_warn_timer >= 5000 /\ c.pack.cell_voltage <= BMS_SE_UV_WARN_CLEAR
    \/ c.ot_warn_timer >= 5000 /\ c.pack.temperature >= BMS_SE_OT_WARN_CLEAR

\* Firmware: an active warning whose input is at or beyond its clear level
FwWarnNotBelowClear(pr, pk) ==
    \/ pr.warn_ov_active /\ \E i \in Cells : pk.cell_mv[i] >= BMS_SE_OV_WARN_CLEAR_MV
    \/ pr.warn_uv_active
         /\ \E i \in Cells : pk.cell_mv[i] # 0 /\ pk.cell_mv[i] <= BMS_SE_UV_WARN_CLEAR_MV
    \/ pr.warn_ot_active /\ pk.max_temp_deci_c >= BMS_SE_OT_WARN_CLEAR_DC

\* C31: once the OV warning is visible it is not cleared while the cell
\* voltage stays at or above the 4.190 V clear threshold, however long the
\* voltage stays in the deadband; the same for the UV warning at or below
\* 3.220 V and the OT warning at or above 57.0 C.  In either program, a step
\* that starts with the warning visible and its input not beyond the clear
\* level leaves the warning visible.
C31_WarningKeptUntilClearLevel ==
    [][/\ (scenario.build = "refwarn" /\ ctrl.has_warning /\ RefWarnNotBelowClear(ctrl))
            => ctrl'.has_warning
       /\ (scenario.build = "fwwarn" /\ pack.has_warning /\ FwWarnNotBelowClear(prot, pack))
            => pack'.has_warning]_vars

\* C31: the reference controller after the OV warning was reported, with the
\* cell voltage in the deadband ever since and the warning no longer visible
C31_WarningClearedInDeadband ==
    /\ scenario.build = "refwarn"
    /\ ctrl.ov_warn_timer >= 5000
    /\ ctrl.pack.cell_voltage >= BMS_SE_OV_WARN_CLEAR
    /\ ctrl.pack.cell_voltage < BMS_SE_OVER_VOLTAGE_WARNING
    /\ ran = {"protection"}
    /\ ~ctrl.has_warning

(***************************************************************************)
(* Warnings: the 10 s hold.  src/firmware/src/bms_monitor.c:141-147,       *)
(* src/firmware/src/bms_protection.c:357-377                               *)
(***************************************************************************)

\* The cause of the imbalance warning is present and the monitor has
\* reported it (it sets the imbalance bit together with has_warning)
ImbalanceReported(pk) ==
    /\ pk.max_cell_mv - pk.min_cell_mv > BMS_IMBALANCE_WARN_MV
    /\ pk.faults.imbalance

\* C32: once a warning (OV, UV, OT, overcurrent or imbalance) has been
\* reported, the warning flag stays true on every tick until at least 10 s
\* after the last tick in which its cause was present.  In particular, at
\* the end of a tick of the firmware loop in which the imbalance is present
\* and reported, the warning flag is true.
C32_WarningVisibleWhileCausePresent ==
    (scenario.build = "loop" /\ ran = {} /\ ImbalanceReported(pack)) => pack.has_warning

\* C32: a tick of the firmware loop has ended with the imbalance present and
\* reported by the monitor, its bit still set, and the warning flag false
C32_ImbalanceWarningDroppedInTick ==
    /\ scenario.build = "loop" /\ ran = {}
    /\ scan.s_scan_count > 0
    /\ ImbalanceReported(pack)
    /\ ~pack.has_warning
    /\ prot.warning_hold_ms = 0

(***************************************************************************)
(* SoC estimator: Coulomb counting at the monitor period.                  *)
(* src/firmware/src/bms_soc.c:76-97                                        *)
(***************************************************************************)

\* C33: stepped at the 10 ms monitor period from SoC 0 %, a charge current
\* of 128 A applied over 3,600 s of consecutive bms_soc_update calls yields
\* a final SoC between 99 % and 100 %.
C33_CoulombLawAtMonitorPeriod ==
    (/\ scenario.build = "socunit" /\ rin.dt = BMS_MONITOR_PERIOD_MS
     /\ rin.elapsed = CoulombDurationMs)
        => (soc.s_soc_hundredths >= 9900 /\ soc.s_soc_hundredths <= 10000)

\* C33: the 3,600 s of calls at the monitor period are over and the
\* estimator still reads 0 %
C33_NoChargeCountedAfterAnHour ==
    /\ scenario.build = "socunit" /\ rin.dt = BMS_MONITOR_PERIOD_MS
    /\ rin.elapsed = CoulombDurationMs
    /\ pack.pack_current_ma = CoulombCurrentMa
    /\ soc.s_soc_hundredths = 0

(***************************************************************************)
(* Fault log in NVM: ring-buffer semantics.                                *)
(* src/firmware/src/bms_nvm.c:27-73                                        *)
(***************************************************************************)

\* The (i+1)-th most recent of the events written so far
NvmRecent(i) == rin.written[Len(rin.written) - i]

NvmHeld == Min(Len(rin.written), BMS_NVM_FAULT_LOG_SIZE)

\* C34: after any sequence of k fault-log writes the ring buffer holds the
\* min(k, 64) most recent events: bms_nvm_get_fault(i) returns the (i+1)-th
\* most recent write for every i < min(k, 64) and returns false for every
\* i >= min(k, 64), for every index of the uint8_t range.
C34_RingBufferHoldsMostRecent ==
    scenario.build = "nvmunit" =>
        \A i \in 0..255 :
            IF i < NvmHeld
            THEN bms_nvm_get_fault(ctrl, i) = [ret |-> TRUE, event |-> NvmRecent(i)]
            ELSE ~bms_nvm_get_fault(ctrl, i).ret

\* C34: more than 64 events were written and the oldest event still held,
\* the 64th most recent, has been read back
C34_WrappedOldestRead ==
    /\ scenario.build = "nvmunit"
    /\ Len(rin.written) > BMS_NVM_FAULT_LOG_SIZE
    /\ rin.got.idx = BMS_NVM_FAULT_LOG_SIZE - 1
    /\ rin.got.r.ret
    /\ rin.got.r.event = NvmRecent(BMS_NVM_FAULT_LOG_SIZE - 1)
    /\ rin.got.r.event.timestamp_ms > 0

(***************************************************************************)
(* Firmware tasks: the contactor FSM against the pack mode.                *)
(* src/firmware/src/bms_contactor.c:39-76, src/firmware/src/bms_state.c    *)
(***************************************************************************)

\* C35: for every interleaving of state-machine, protection and contactor
\* runs, whenever the contactor FSM is in CLOSED and no open request is
\* pending, the pack mode is CONNECTING or CONNECTED: a close request never
\* outlives the CONNECTING attempt that issued it.
C35_ClosedOnlyWhileConnecting ==
    (ctx.state = "CLOSED" /\ ~ctx.open_requested)
        => pack.mode \in {"CONNECTING", "CONNECTED"}

\* C35: the contactors are closed with no open request pending, and the
\* pack is in READY with no fault latched
C35_ClosedInReady ==
    /\ scenario.build = "rtos"
    /\ ctx.state = "CLOSED" /\ ~ctx.open_requested /\ ~ctx.close_requested
    /\ pack.mode = "READY"
    /\ ~pack.fault_latched

(***************************************************************************)
(* Firmware: the EMS limits of a connected pack.                           *)
(* src/firmware/src/bms_state.c:164-172, src/firmware/src/bms_monitor.c    *)
(***************************************************************************)

\* C36: after an EMS set_limits command has been processed in CONNECTED,
\* both current envelopes stay at or below the EMS-supplied values at the
\* end of every subsequent tick for as long as the pack remains CONNECTED.
C36_EnvelopesStayBelowEmsLimits ==
    (scenario.build = "loop" /\ ran = {} /\ pack.mode = "CONNECTED" /\ nev.ems.set)
        => /\ pack.charge_limit_ma <= nev.ems.charge
           /\ pack.discharge_limit_ma <= nev.ems.discharge

\* C36: a tick ends with the pack still CONNECTED and its charge envelope
\* above the value a set_limits command gave it in an earlier tick
C36_EnvelopeBackAboveEmsLimit ==
    /\ scenario.build = "loop" /\ ran = {}
    /\ pack.mode = "CONNECTED" /\ nev.ems.set
    /\ nev.ems.charge >= 0
    /\ pack.charge_limit_ma > nev.ems.charge

(***************************************************************************)
(* Firmware: the EMS watchdog and its two clocks.                          *)
(* src/firmware/src/bms_state.c:73-83, src/firmware/rtos/bms_tasks.c:74-87 *)
(***************************************************************************)

\* A step in which the EMS watchdog trips
WatchdogTrips == ~pack.faults.ems_timeout /\ pack'.faults.ems_timeout

\* The most HAL time that can lie between the stamp of the last EMS message
\* and now: the HAL tick clock is at most TickLead ahead of the uptime count
SinceLastEmsMessage == pack.uptime_ms + TickLead - pack.last_ems_msg_ms

\* C37: while EMS messages (commands or heartbeats) keep arriving less than
\* 5 s apart, the EMS watchdog never trips in CONNECTED or CONNECTING, for
\* every relation between the HAL tick clock that stamps received messages
\* and the uptime counter the watchdog compares against: a trip happens only
\* when more than BMS_EMS_WATCHDOG_MS lie between the last message and now.
C37_WatchdogTripsOnlyAfterSilence ==
    [][WatchdogTrips => SinceLastEmsMessage > BMS_EMS_WATCHDOG_MS]_vars

\* C37: the watchdog has put the pack in FAULT although its last EMS
\* message carries a stamp that the uptime counter has not yet reached
C37_TrippedOnMessageStampedAhead ==
    /\ scenario.build = "rtos"
    /\ pack.mode = "FAULT" /\ pack.faults.ems_timeout /\ ~pack.fault_latched
    /\ pack.last_ems_msg_ms > pack.uptime_ms
    /\ pack.last_ems_msg_ms <= pack.uptime_ms + TickLead

(* The outputs bms_contactor_run commands in each state of the FSM
   (bms_contactor.c:22-27, 71-72, 97-98). *)
ContactorOutputs(state) ==
    [pos       |-> state \in {"CLOSING", "CLOSED"},
     neg       |-> state \in {"PRE_CHARGE", "CLOSING", "CLOSED"},
     precharge |-> state = "PRE_CHARGE"]

(* C38: in every reachable state of the firmware the three contactor outputs
   are those of the contactor state: pre-charge relay on only in PRE_CHARGE,
   main positive only in CLOSING and CLOSED, main negative only in PRE_CHARGE,
   CLOSING and CLOSED, everything off in OPEN, OPENING and WELDED; the
   pre-charge relay and main positive are never on together. *)
C38_OutputsMatchContactorState ==
    scenario.build \in {"loop", "rtos"} =>
        /\ gpio = ContactorOutputs(ctx.state)
        /\ ~(gpio.precharge /\ gpio.pos)

(* C38 witness: the FSM has run from CLOSED through an open request and sits
   in OPENING with current still flowing and all outputs released. *)
C38_OpeningWithOutputsOff ==
    /\ scenario.build = "loop"
    /\ ctx.state = "OPENING"
    /\ pack.contactor_state = "CLOSED"
    /\ gpio = all_contactors_off

(***************************************************************************)
(* Leaky timers stay in range.  src/firmware/src/bms_protection.c:50-68,   *)
(* src/c/corvus_bms.c:383-550                                              *)
(***************************************************************************)
RefLeakyTimers ==
    {"hw_ov_timer", "hw_uv_timer", "hw_ot_timer", "oc_warn_timer", "oc_fault_timer",
     "ov_fault_timer", "uv_fault_timer", "ot_fault_timer"}

InU32(n) == n >= 0 /\ FitsU32(n)

FwLeakyTimersInRange(pr) ==
    /\ \A i \in Cells : InU32(pr.ov_timer_ms[i]) /\ InU32(pr.uv_timer_ms[i])
    /\ \A s \in Sensors : InU32(pr.ot_timer_ms[s])
    /\ InU32(pr.hw_ov_timer_ms) /\ InU32(pr.hw_uv_timer_ms) /\ InU32(pr.hw_ot_timer_ms)
    /\ InU32(pr.oc_charge_timer_ms) /\ InU32(pr.oc_discharge_timer_ms)

\* C39: every leaky timer stays in its range in every reachable state,
\* whatever dt the step calls are given, zero and negative dt passed to the
\* reference controller included: no timer of the reference controller is
\* negative and every timer of the firmware is a value of its uint32_t.
C39_LeakyTimersInRange ==
    /\ scenario.build = "refleak" => \A f \in RefLeakyTimers : ctrl[f] >= 0
    /\ scenario.build = "fwleak" => FwLeakyTimersInRange(prot)

\* C39: the reference controller after a step with a negative dt while the
\* cell voltage is at the SE over-voltage fault level: the fault timer has
\* counted below zero
C39_NegativeTimerAfterNegativeDt ==
    /\ scenario.build = "refleak"
    /\ rin.dt < 0
    /\ ran = {"protection"}
    /\ ctrl.pack.cell_voltage >= BMS_SE_OVER_VOLTAGE_FAULT
    /\ ctrl.ov_fault_timer < 0

(***************************************************************************)
(* Logged cell index.  src/firmware/src/bms_protection.c:182-236, 40-46    *)
(***************************************************************************)
\* C40: when a software OV, UV or OT fault is logged, the cell_index of the
\* logged event is the index of the cell or sensor whose timer tripped, for
\* every cell index 0..307 and every temperature-sensor index; the newest
\* event read back carries that index.
C40_LoggedIndexIsTrippedIndex ==
    (scenario.build = "logunit" /\ rin.logged) =>
        /\ ctrl.fault_log[0].cell_index = rin.index
        /\ rin.got.ret => rin.got.event.cell_index = rin.index

\* C40: the OV fault of cell 256 logged and read back as cell 0
C40_Cell256LoggedAsCell0 ==
    /\ scenario.build = "logunit"
    /\ rin.logged /\ rin.kind = "ov" /\ rin.index = 256
    /\ rin.got.ret
    /\ rin.got.event.fault_type = 1
    /\ rin.got.event.cell_index = 0

====
